---- MODULE Spec2Model ----
(***************************************************************************)
(* A model of the raftjs device telemetry engine (DeviceManager): the      *)
(* devbin and JSON frame handlers, the device-type cache with its          *)
(* single-flight request queue, the device state store and the             *)
(* sliding-window sample statistics.                                       *)
(*                                                                         *)
(* Execution model: JavaScript's event loop.  One TLA+ step is one         *)
(* synchronous run of code, from the start of a task (a frame arriving,    *)
(* an RPC answer arriving) or of a microtask (the continuation of an       *)
(* await) up to the next await or the end of the function.  Microtasks     *)
(* are queued first-in first-out and all of them run before the next task. *)
(***************************************************************************)
EXTENDS Integers, Sequences, FiniteSets, TLC

(***************************************************************************)
(* Bounds of the model                                                     *)
(***************************************************************************)
\* Frames delivered in one behaviour.
MaxFrames == 3
\* The largest value handed to setMaxDataPointsToStore.
MaxCap == 2
\* Clock ticks in one behaviour.
MaxTicks == 2

(***************************************************************************)
(* Program constants                                                       *)
(***************************************************************************)
DefaultMaxDatapointsToStore == 1000
MinTimeBetweenDeviceTypeInfoRetrievalMs == 60000
RemoveDevicesTimeMs == 60000
StatsWindowMs == 5000
MsgTypeLen == 2
DevbinEnvelopeLen == 2
DevbinMagicMin == 219
DevbinMagicMax == 223
RecordLenLen == 2
BusInfoLen == 1
DeviceAddrLen == 4
DevTypeIdxLen == 2
RecordHeaderLen == BusInfoLen + DeviceAddrLen + DevTypeIdxLen

\* JavaScript's undefined, and null.
Undefined == [js |-> "undefined"]
Null == [js |-> "null"]

\* DeviceOnlineState
Online == "Online"
Offline == "Offline"
PendingDeletion == "PendingDeletion"

(***************************************************************************)
(* Generic helpers: finite maps (JavaScript objects used as dictionaries)  *)
(***************************************************************************)
EmptyMap == [x \in {} |-> Undefined]
MapPut(f, k, v) == [x \in (DOMAIN f) \cup {k} |-> IF x = k THEN v ELSE f[x]]
MapDel(f, k) == [x \in (DOMAIN f) \ {k} |-> f[x]]
Max(a, b) == IF a >= b THEN a ELSE b
Min(a, b) == IF a <= b THEN a ELSE b

RECURSIVE SumSeq(_)
SumSeq(s) == IF s = <<>> THEN 0 ELSE Head(s) + SumSeq(Tail(s))

\* The last n elements of s (all of s when it is shorter).
LastN(s, n) == SubSeq(s, Len(s) - Min(n, Len(s)) + 1, Len(s))
\* s without its first n elements.
DropN(s, n) == SubSeq(s, n + 1, Len(s))

(***************************************************************************)
(* Strings are sequences of one-character strings, so that keys can be     *)
(* built and taken apart character by character.                           *)
(***************************************************************************)
DigitChars == <<"0", "1", "2", "3", "4", "5", "6", "7", "8", "9",
                "a", "b", "c", "d", "e", "f">>

RECURSIVE DigitsOf(_, _)
DigitsOf(n, radix) ==
    IF n < radix THEN <<DigitChars[n + 1]>>
    ELSE DigitsOf(n \div radix, radix) \o <<DigitChars[(n % radix) + 1]>>

\* Number.prototype.toString(radix) for an integer: a sign, then the digits.
NumberToString(n, radix) ==
    IF n < 0 THEN <<"-">> \o DigitsOf(0 - n, radix) ELSE DigitsOf(n, radix)

formatDeviceAddrHex(addr) == NumberToString(addr, 16)

getDeviceKey(busNumberAsString, devAddrHexStr) ==
    busNumberAsString \o <<"_">> \o devAddrHexStr

(***************************************************************************)
(* Bytes and the 32-bit integer operators of JavaScript                    *)
(***************************************************************************)
\* rxMsg[i] for a 0-based index i inside the array.
ByteAt(msg, i) == msg[i + 1]

\* (b << 24) for a byte b: the result is a signed 32-bit integer.
Shl24(b) == IF b >= 128 THEN (b - 256) * 16777216 ELSE b * 16777216
\* (b & 0xF0), (b & 0x0f), (b & 0x80) !== 0, (b & 0x40) !== 0 for a byte b.
HighNibble(b) == (b \div 16) * 16
LowNibble(b) == b % 16
Bit7(b) == (b \div 128) % 2 = 1
Bit6(b) == (b \div 64) % 2 = 1
\* (hi << 8) + lo
U16BE(hi, lo) == hi * 256 + lo

(***************************************************************************)
(* Device type schemas (DeviceTypeInfo) and the typeinfo RPC               *)
(***************************************************************************)
\* Names used in the model, as character sequences.
StrDevbin == <<"d", "e", "v", "b", "i", "n">>
StrDevjson == <<"d", "e", "v", "j", "s", "o", "n">>
StrServo == <<"s", "e", "r", "v", "o">>
StrX1 == <<"x", "1">>
StrT == <<"_", "t">>
StrI == <<"_", "i">>
StrO == <<"_", "o">>
StrS == <<"_", "s">>
StrBuf == <<"_", "b", "u", "f">>

\* A schema whose response block is one byte holding one unsigned attribute.
TypeInfoServo ==
    [name |-> StrServo, resp |-> [b |-> 1, a |-> <<[n |-> StrX1, at |-> 0]>>]]
\* A schema without a response block (devinfo.resp is undefined).
\* A schema whose response block is two bytes, the attribute in the second.
TypeInfoWide == [name |-> StrServo, resp |-> [b |-> 2, a |-> <<[n |-> StrX1, at |-> 1]>>]]
TypeInfoNoResp == [name |-> StrServo, resp |-> Undefined]

\* What sendRICRESTURL("devman/typeinfo?...") can do: answer rslt "ok" with a
\* devinfo, answer another rslt, or raise.
RpcOk(devinfo) == [kind |-> "ok", devinfo |-> devinfo]
RpcFail == [kind |-> "fail", devinfo |-> Undefined]
RpcRaise == [kind |-> "raise", devinfo |-> Undefined]

(***************************************************************************)
(* State                                                                   *)
(***************************************************************************)
VARIABLES
    now,                    \* Date.now(), in ms
    ticks,                  \* clock steps taken (bounds the behaviour)
    systemUtils,            \* _systemUtils: Null, or [msgHandler: BOOLEAN]
    maxDatapointsToStore,   \* _maxDatapointsToStore
    devicesState,           \* _devicesState: DeviceKey -> DeviceState
    deviceLastUpdateTime,   \* _deviceLastUpdateTime: DeviceKey -> ms
    deviceStats,            \* _deviceStats: DeviceKey -> DeviceStatsInternal
    deviceRemovedCallbacks, \* _deviceRemovedCallbacks: sequence of callbacks
    cachedDeviceTypeRecs,   \* _cachedDeviceTypeRecs: type key -> DeviceTypeInfo
    cachedDeviceTypePreviousAttemptTimes, \* type key -> ms
    pendingDeviceTypeRequests, \* type key -> [promise, waitingQueue]
    rpcInFlight,            \* typeinfo RPCs sent and not yet answered, in order
    tasks,                  \* the frame handlers started so far, by task id
    microtasks,             \* the microtask queue: continuations ready to run
    framesDelivered,        \* frames handed to the handlers so far
    newDeviceCallbacks,     \* _newDeviceCallbacks
    newDeviceAttributeCallbacks, \* _newDeviceAttributeCallbacks
    newAttributeDataCallbacks,   \* _newAttributeDataCallbacks
    decodedDataCallbacks,   \* _decodedDataCallbacks
    cbLog,                  \* callbacks invoked by the last step, in order
    fetchRound,             \* type key -> executeDeviceTypeInfoRequest calls so far
    fetchLog,               \* <<type key, round>> -> how that fetch ended
    delivered,              \* <<type key, round>> -> what that fetch's callers received
    stream,                 \* the RaftStreamHandler: its fields and its calls
    capChanged              \* setMaxDataPointsToStore was called after a frame arrived

vars == <<now, ticks, systemUtils, maxDatapointsToStore, devicesState,
          deviceLastUpdateTime, deviceStats, deviceRemovedCallbacks,
          cachedDeviceTypeRecs, cachedDeviceTypePreviousAttemptTimes,
          pendingDeviceTypeRequests, rpcInFlight, tasks, microtasks,
          framesDelivered, newDeviceCallbacks, newDeviceAttributeCallbacks,
          newAttributeDataCallbacks, decodedDataCallbacks, cbLog, fetchRound,
          fetchLog, delivered, capChanged, stream>>

(***************************************************************************)
(* RaftStreamHandler: fields                                               *)
(***************************************************************************)
DEFAULT_MAX_BLOCK_SIZE == 475
\* streamData and streamAudio refuse a start within this time of the last.
StreamStartGapMs == 500

\* The fields after construction.  _lastStreamStartTime is 0, the epoch, a
\* time long before the clock's origin (the construction).  calls holds the
\* streamData and streamAudio calls made so far, soktoMsgs counts the sokto
\* messages received.
StreamHandlerInit ==
    [streamID |-> Null, maxBlockSize |-> DEFAULT_MAX_BLOCK_SIZE,
     soktoReceived |-> FALSE, soktoPos |-> 0,
     streamIsStarting |-> FALSE, lastStreamStartTime |-> 0 - 2 * StreamStartGapMs,
     isStreaming |-> FALSE, isPaused |-> FALSE,
     streamBuffer |-> <<>>, streamPos |-> 0, legacySoktoMode |-> FALSE,
     calls |-> <<>>, soktoMsgs |-> 0]

\* The most streamData and streamAudio calls of a behaviour, and the most
\* sokto messages.
MaxStreams == 2
MaxSoktos == 2

\* The program state as one record, threaded through a synchronous run.
State ==
    [now |-> now, systemUtils |-> systemUtils,
     maxDatapointsToStore |-> maxDatapointsToStore,
     devicesState |-> devicesState,
     deviceLastUpdateTime |-> deviceLastUpdateTime,
     deviceStats |-> deviceStats,
     deviceRemovedCallbacks |-> deviceRemovedCallbacks,
     newDeviceCallbacks |-> newDeviceCallbacks,
     newDeviceAttributeCallbacks |-> newDeviceAttributeCallbacks,
     newAttributeDataCallbacks |-> newAttributeDataCallbacks,
     decodedDataCallbacks |-> decodedDataCallbacks,
     cachedDeviceTypeRecs |-> cachedDeviceTypeRecs,
     cachedDeviceTypePreviousAttemptTimes |-> cachedDeviceTypePreviousAttemptTimes,
     pendingDeviceTypeRequests |-> pendingDeviceTypeRequests,
     rpcInFlight |-> rpcInFlight, tasks |-> tasks, microtasks |-> microtasks,
     cbLog |-> <<>>, fetchRound |-> fetchRound, fetchLog |-> fetchLog,
     delivered |-> delivered, stream |-> stream]

\* The state a synchronous run leaves behind.
Commit(s) ==
    /\ devicesState' = s.devicesState
    /\ deviceLastUpdateTime' = s.deviceLastUpdateTime
    /\ deviceStats' = s.deviceStats
    /\ cachedDeviceTypeRecs' = s.cachedDeviceTypeRecs
    /\ cachedDeviceTypePreviousAttemptTimes' = s.cachedDeviceTypePreviousAttemptTimes
    /\ pendingDeviceTypeRequests' = s.pendingDeviceTypeRequests
    /\ rpcInFlight' = s.rpcInFlight
    /\ tasks' = s.tasks
    /\ microtasks' = s.microtasks
    /\ cbLog' = s.cbLog
    /\ fetchRound' = s.fetchRound
    /\ fetchLog' = s.fetchLog
    /\ delivered' = s.delivered
    /\ stream' = s.stream

\* The state after construction, but for the stats map.
InitButStats ==
    /\ now = 0
    /\ ticks = 0
    /\ systemUtils = Null
    /\ maxDatapointsToStore = DefaultMaxDatapointsToStore
    /\ devicesState = EmptyMap
    /\ deviceLastUpdateTime = EmptyMap
    /\ deviceRemovedCallbacks = <<>>
    /\ cachedDeviceTypeRecs = EmptyMap
    /\ cachedDeviceTypePreviousAttemptTimes = EmptyMap
    /\ pendingDeviceTypeRequests = EmptyMap
    /\ rpcInFlight = <<>>
    /\ tasks = <<>>
    /\ microtasks = <<>>
    /\ framesDelivered = 0
    /\ cbLog = <<>>
    /\ fetchRound = EmptyMap
    /\ fetchLog = EmptyMap
    /\ delivered = EmptyMap
    /\ capChanged = FALSE
    /\ newDeviceCallbacks = <<>>
    /\ newDeviceAttributeCallbacks = <<>>
    /\ newAttributeDataCallbacks = <<>>
    /\ decodedDataCallbacks = <<>>
    /\ stream = StreamHandlerInit

\* The state after construction.
Init == InitButStats /\ deviceStats = EmptyMap

(***************************************************************************)
(* Tasks: one per frame handler call (handleClientMsgBinary) or per JSON   *)
(* device closure.  pc is where the task stands:                           *)
(*   "fetching"  inside getDeviceTypeInfo, awaiting its own requestPromise *)
(*   "queued"    inside getDeviceTypeInfo, in another request's waitingQueue *)
(*   "resuming"  the awaited value is there, the continuation is queued    *)
(*   "done"      the handler has returned                                  *)
(* awaitType, how, round, settle and result describe the task's latest     *)
(* getDeviceTypeInfo call: the branch it took ("cache", "queue", "limited",*)
(* "fetch"), the fetch it started or joined (0: none), and whether the     *)
(* promise it awaits was fulfilled or rejected, and with what.             *)
(***************************************************************************)
NewTask(kind, frame) ==
    [kind |-> kind, frame |-> frame, msgPos |-> 0, pc |-> "run",
     awaitType |-> <<>>, awaitBus |-> <<>>, calls |-> 0, how |-> "",
     round |-> 0, settle |-> "", result |-> Undefined,
     visited |-> <<>>, exit |-> ""]

Job(t, job) == [task |-> t, job |-> job]

\* The handler returns: "completed" after its closing sweep and callback
\* dispatch, "aborted" from one of its early returns, "threw" when an error
\* leaves it.
Finish(s, t, exit) == [s EXCEPT !.tasks[t].pc = "done", !.tasks[t].exit = exit]

(***************************************************************************)
(* Device type cache: getDeviceTypeInfo and executeDeviceTypeInfoRequest   *)
(***************************************************************************)
HasMsgHandler(s) == s.systemUtils # Null /\ s.systemUtils.msgHandler

Round(s, deviceType) ==
    IF deviceType \in DOMAIN s.fetchRound THEN s.fetchRound[deviceType] ELSE 0

\* The value a getDeviceTypeInfo call returns reaches its caller: the caller's
\* await continuation is queued.
ReturnToCaller(s, t, result) ==
    [s EXCEPT !.tasks[t].pc = "resuming",
              !.tasks[t].settle = "fulfilled",
              !.tasks[t].result = result,
              !.microtasks = Append(@, Job(t, "callerCont"))]

InCache_Never(s, deviceType) == FALSE
InCache(s, deviceType) == deviceType \in DOMAIN s.cachedDeviceTypeRecs

RequestPending_Never(s, deviceType) == FALSE
RequestPending(s, deviceType) == deviceType \in DOMAIN s.pendingDeviceTypeRequests

RateLimited_Inclusive(s, deviceType) ==
    /\ deviceType \in DOMAIN s.cachedDeviceTypePreviousAttemptTimes
    /\ s.now - s.cachedDeviceTypePreviousAttemptTimes[deviceType]
          <= MinTimeBetweenDeviceTypeInfoRetrievalMs
RateLimited(s, deviceType) ==
    /\ deviceType \in DOMAIN s.cachedDeviceTypePreviousAttemptTimes
    /\ s.now - s.cachedDeviceTypePreviousAttemptTimes[deviceType]
          < MinTimeBetweenDeviceTypeInfoRetrievalMs

\* Bookkeeping: how the fetch that task t started ended.
NoteFetch(s, t, kind) ==
    [s EXCEPT !.fetchLog =
        MapPut(@, <<s.tasks[t].awaitType, s.tasks[t].round>>, kind)]

\* The synchronous start of executeDeviceTypeInfoRequest: the attempt time is
\* recorded; with a message handler the RPC is sent and awaited, without one the
\* function returns undefined at once.
executeDeviceTypeInfoRequest(s, t, busName, deviceType) ==
    LET s1 == [s EXCEPT
                 !.cachedDeviceTypePreviousAttemptTimes = MapPut(@, deviceType, s.now),
                 !.fetchRound = MapPut(@, deviceType, Round(s, deviceType) + 1),
                 !.tasks[t].round = Round(s, deviceType) + 1]
    IN  IF HasMsgHandler(s)
        THEN [s1 EXCEPT !.rpcInFlight =
                 Append(@, [deviceType |-> deviceType, busName |-> busName,
                            task |-> t])]
        ELSE [NoteFetch(s1, t, "nohandler") EXCEPT
                 !.tasks[t].settle = "fulfilled",
                 !.tasks[t].result = Undefined,
                 !.microtasks = Append(@, Job(t, "initCont"))]

\* getDeviceTypeInfo up to its return or its await, called by task t.
getDeviceTypeInfo(s, t, busName, deviceType) ==
    LET s0 == [s EXCEPT !.tasks[t].awaitType = deviceType,
                        !.tasks[t].awaitBus = busName,
                        !.tasks[t].calls = @ + 1,
                        !.tasks[t].round =
                            IF deviceType \in DOMAIN s.pendingDeviceTypeRequests
                            THEN Round(s, deviceType) ELSE 0]
    IN  IF InCache(s, deviceType)
        THEN ReturnToCaller([s0 EXCEPT !.tasks[t].how = "cache"], t,
                            s.cachedDeviceTypeRecs[deviceType])
        ELSE IF RequestPending(s, deviceType)
        THEN [s0 EXCEPT !.pendingDeviceTypeRequests[deviceType].waitingQueue = Append(@, t),
                        !.tasks[t].how = "queue",
                        !.tasks[t].pc = "queued"]
        ELSE IF RateLimited(s, deviceType)
        THEN ReturnToCaller([s0 EXCEPT !.tasks[t].how = "limited"], t, Undefined)
        ELSE [executeDeviceTypeInfoRequest(s0, t, busName, deviceType) EXCEPT
                 !.pendingDeviceTypeRequests =
                     MapPut(@, deviceType, [promise |-> t, waitingQueue |-> <<>>]),
                 !.tasks[t].how = "fetch",
                 !.tasks[t].pc = "fetching"]

\* What a typeinfo RPC's answer makes executeDeviceTypeInfoRequest return.
TypeInfoFromResponse(resp) == IF resp.kind = "ok" THEN resp.devinfo ELSE Undefined

\* How the promise of executeDeviceTypeInfoRequest settles: its try/catch turns
\* a raising RPC into a return of undefined.
RequestOutcome_Uncaught(resp) == IF resp.kind = "raise" THEN "rejected" ELSE "fulfilled"
RequestOutcome(resp) == "fulfilled"

\* The rest of executeDeviceTypeInfoRequest once the RPC has answered or raised:
\* an ok answer is cached; the requestPromise settles.
executeDeviceTypeInfoRequestDone(s, req, resp) ==
    LET s1 == IF resp.kind = "ok"
              THEN [s EXCEPT !.cachedDeviceTypeRecs = MapPut(@, req.deviceType, resp.devinfo)]
              ELSE s
    IN  [NoteFetch(s1, req.task, resp.kind) EXCEPT
            !.tasks[req.task].settle = RequestOutcome(resp),
            !.tasks[req.task].result = TypeInfoFromResponse(resp),
            !.microtasks = Append(@, Job(req.task, "initCont"))]

\* waitingQueue.forEach(({ resolve }) => resolve(result)), or reject(error)
RECURSIVE SettleWaiters(_, _, _, _)
SettleWaiters(s, waitingQueue, settle, result) ==
    IF waitingQueue = <<>> THEN s
    ELSE SettleWaiters(
            [s EXCEPT !.tasks[Head(waitingQueue)].settle = settle,
                      !.tasks[Head(waitingQueue)].result = result,
                      !.microtasks = Append(@, Job(Head(waitingQueue), "react"))],
            Tail(waitingQueue), settle, result)

\* The value each queued waiter is resolved with.
WaiterResult(result) == result

\* getDeviceTypeInfo after `await requestPromise`: the waiters are settled as
\* the request was, the pending entry is deleted, the result (undefined after a
\* rejection) is returned.
getDeviceTypeInfoSettled_KeepEntry(s, t) ==
    LET deviceType == s.tasks[t].awaitType
        settle == s.tasks[t].settle
        result == s.tasks[t].result
        waitingQueue == s.pendingDeviceTypeRequests[deviceType].waitingQueue
        s1 == SettleWaiters(s, waitingQueue, settle,
                            IF settle = "fulfilled" THEN WaiterResult(result) ELSE result)
    IN  ReturnToCaller(s1, t, IF settle = "fulfilled" THEN result ELSE Undefined)

getDeviceTypeInfoSettled(s, t) ==
    LET deviceType == s.tasks[t].awaitType
        settle == s.tasks[t].settle
        result == s.tasks[t].result
        waitingQueue == s.pendingDeviceTypeRequests[deviceType].waitingQueue
        s1 == SettleWaiters(s, waitingQueue, settle,
                            IF settle = "fulfilled" THEN WaiterResult(result) ELSE result)
        s2 == [s1 EXCEPT !.pendingDeviceTypeRequests = MapDel(@, deviceType)]
    IN  ReturnToCaller(s2, t, IF settle = "fulfilled" THEN result ELSE Undefined)

\* A waiter's promise has been settled: its caller's continuation is queued.
WaiterResolved(s, t) ==
    [s EXCEPT !.tasks[t].pc = "resuming",
              !.microtasks = Append(@, Job(t, "callerCont"))]

\* Bookkeeping: what a caller that started or joined a fetch received.
NoteDelivered(s, t) ==
    LET k == <<s.tasks[t].awaitType, s.tasks[t].round>>
        sofar == IF k \in DOMAIN s.delivered THEN s.delivered[k] ELSE <<>>
    IN  IF s.tasks[t].round = 0 THEN s
        ELSE [s EXCEPT !.delivered =
                MapPut(@, k, Append(sofar, [settle |-> s.tasks[t].settle,
                                            value |-> s.tasks[t].result]))]

(***************************************************************************)
(* Device state store                                                      *)
(***************************************************************************)
\* The DeviceState both handlers create for an unknown key.
NewDeviceState(deviceTypeInfo, devAddr, deviceType, busName) ==
    [deviceTypeInfo |-> deviceTypeInfo,
     deviceTimeline |-> [timestampsUs |-> <<>>, lastReportTimestampUs |-> 0,
                         reportTimestampOffsetUs |-> 0],
     deviceAttributes |-> EmptyMap,
     deviceIsNew |-> TRUE,
     stateChanged |-> FALSE,
     onlineState |-> Online,
     deviceAddress |-> devAddr,
     deviceType |-> deviceType,
     busName |-> busName]

\* callbacks.forEach((cb) => cb(...)): one log entry per registered callback.
Invoke(callbacks, ev, deviceKey, arg) ==
    [i \in 1..Len(callbacks) |->
        [ev |-> ev, cb |-> callbacks[i], deviceKey |-> deviceKey, arg |-> arg]]

\* The onlineState removeDevice gives the state it hands to the callbacks.
RemovedOnlineState == PendingDeletion

removeDevice(s, deviceKey) ==
    LET present == deviceKey \in DOMAIN s.devicesState
        deviceState == [s.devicesState[deviceKey] EXCEPT !.onlineState = RemovedOnlineState]
        s1 == IF present
              THEN [s EXCEPT !.cbLog = @ \o Invoke(s.deviceRemovedCallbacks, "deviceRemoved",
                                                  deviceKey, deviceState)]
              ELSE s
    IN  [s1 EXCEPT !.devicesState = MapDel(@, deviceKey),
                   !.deviceLastUpdateTime = MapDel(@, deviceKey),
                   !.deviceStats = MapDel(@, deviceKey)]

(***************************************************************************)
(* Device statistics.  sampleRateHz is the exact quotient num / den.       *)
(***************************************************************************)
\* lastSampleTimeMs / lastUpdateTimeMs before any update (null in the code).
NoTime == -1

Rate(num, den) == [num |-> num, den |-> den]

\* `logged` is bookkeeping: every event ever logged for the device.
createEmptyStats(windowMs) ==
    [totalSamples |-> 0, windowMs |-> windowMs, windowSamples |-> 0,
     sampleRateHz |-> Rate(0, 1), lastSampleTimeMs |-> NoTime,
     lastUpdateTimeMs |-> NoTime, windowEvents |-> <<>>, logged |-> <<>>]

\* The stats entry getOrCreateDeviceStats returns, and the map it leaves.
getOrCreateDeviceStats(stats, deviceKey) ==
    IF deviceKey \in DOMAIN stats THEN stats
    ELSE MapPut(stats, deviceKey, createEmptyStats(StatsWindowMs))

cloneDeviceStats(st) ==
    [totalSamples |-> st.totalSamples, windowMs |-> st.windowMs,
     windowSamples |-> st.windowSamples, sampleRateHz |-> st.sampleRateHz,
     lastSampleTimeMs |-> st.lastSampleTimeMs,
     lastUpdateTimeMs |-> st.lastUpdateTimeMs]

\* while (events.length > 0 && events[0].timeMs < windowStartMs) events.shift()
RECURSIVE ShiftOld(_, _)
ShiftOld(events, windowStartMs) ==
    IF Len(events) > 0 /\ events[1].timeMs < windowStartMs
    THEN ShiftOld(Tail(events), windowStartMs)
    ELSE events

\* events.reduce((sum, entry) => sum + entry.samples, 0)
SumSamples_Count(events) == Len(events)
RECURSIVE SumSamples(_)
SumSamples(events) ==
    IF events = <<>> THEN 0 ELSE Head(events).samples + SumSamples(Tail(events))

\* updateDeviceStats on the entry st.
updateStatsEntry(st, newSamples, nowMs) ==
    LET st1 == [st EXCEPT !.lastUpdateTimeMs = nowMs]
        st2 == IF newSamples > 0
               THEN [st1 EXCEPT !.totalSamples = @ + newSamples,
                                !.lastSampleTimeMs = nowMs,
                                !.windowEvents = Append(@, [timeMs |-> nowMs,
                                                            samples |-> newSamples]),
                                !.logged = Append(@, [timeMs |-> nowMs,
                                                      samples |-> newSamples])]
               ELSE st1
        windowStartMs == nowMs - st2.windowMs
        events == ShiftOld(st2.windowEvents, windowStartMs)
        windowSamples == SumSamples(events)
        st3 == [st2 EXCEPT !.windowEvents = events, !.windowSamples = windowSamples]
    IN  IF Len(events) = 0
        THEN [st3 EXCEPT !.sampleRateHz = Rate(0, 1)]
        ELSE [st3 EXCEPT !.sampleRateHz =
                 Rate(windowSamples * 1000, Max(1, nowMs - events[1].timeMs))]

updateDeviceStats(stats, deviceKey, newSamples, nowMs) ==
    LET stats1 == getOrCreateDeviceStats(stats, deviceKey)
    IN  [stats1 EXCEPT ![deviceKey] = updateStatsEntry(@, newSamples, nowMs)]

\* getDeviceStats(deviceKey): the stats map it leaves, and the copy it returns.
getDeviceStats(stats, deviceKey) ==
    [stats |-> getOrCreateDeviceStats(stats, deviceKey),
     value |-> cloneDeviceStats(getOrCreateDeviceStats(stats, deviceKey)[deviceKey])]

(***************************************************************************)
(* Attribute decode engine (AttributeHandler.processMsgAttrGroup).         *)
(* Every attribute of the model is one unsigned byte at offset `at` of     *)
(* the response block.                                                     *)
(***************************************************************************)
\* The history after newValues are appended under the cap: oldest entries go.
AppendCapped(values, newValues, maxDataPoints) ==
    LastN(values \o newValues, maxDataPoints)

\* `appended` is bookkeeping: every sample ever appended to the attribute.
NewAttrState(name) ==
    [name |-> name, newAttribute |-> TRUE, newData |-> TRUE, values |-> <<>>,
     appended |-> <<>>]

RECURSIVE DecodeAttrs(_, _, _, _, _)
DecodeAttrs(attrs, schemaAttrs, msgBuffer, msgBufIdx, maxDataPoints) ==
    IF schemaAttrs = <<>> THEN attrs
    ELSE LET a == Head(schemaAttrs)
             cur == IF a.n \in DOMAIN attrs THEN attrs[a.n] ELSE NewAttrState(a.n)
             value == ByteAt(msgBuffer, msgBufIdx + a.at)
             nxt == [cur EXCEPT !.values = AppendCapped(@, <<value>>, maxDataPoints),
                                !.appended = Append(@, value),
                                !.newData = TRUE]
         IN  DecodeAttrs(MapPut(attrs, a.n, nxt), Tail(schemaAttrs), msgBuffer,
                         msgBufIdx, maxDataPoints)

\* One sample per schema attribute is appended, and its timestamp to the
\* timeline; the cursor advances by the block size.  Too few bytes: -1.
processMsgAttrGroup(msgBuffer, msgBufIdx, deviceTimeline, pollRespMetadata, devAttrsState, maxDataPoints) ==
    IF msgBufIdx + pollRespMetadata.b > Len(msgBuffer)
    THEN [newMsgBufIdx |-> -1, deviceTimeline |-> deviceTimeline,
          deviceAttributes |-> devAttrsState]
    ELSE LET ts == deviceTimeline.lastReportTimestampUs + 1
         IN  [newMsgBufIdx |-> msgBufIdx + pollRespMetadata.b,
              deviceTimeline |->
                 [deviceTimeline EXCEPT
                     !.timestampsUs = AppendCapped(@, <<ts>>, maxDataPoints),
                     !.lastReportTimestampUs = ts],
              deviceAttributes |->
                 DecodeAttrs(devAttrsState, pollRespMetadata.a, msgBuffer,
                             msgBufIdx, maxDataPoints)]

(***************************************************************************)
(* Change notification                                                     *)
(***************************************************************************)
\* The elements of a finite set in some fixed order (the order in which
\* Object.entries lists the keys of a map is not modelled).
RECURSIVE SetToSeq(_)
SetToSeq(S) ==
    IF S = {} THEN <<>>
    ELSE LET x == CHOOSE y \in S : TRUE IN <<x>> \o SetToSeq(S \ {x})

snapshotAttrLengths(deviceAttrs, pollRespMetadata) ==
    IF pollRespMetadata = Undefined THEN EmptyMap
    ELSE [n \in {pollRespMetadata.a[i].n : i \in 1..Len(pollRespMetadata.a)} |->
             IF n \in DOMAIN deviceAttrs THEN Len(deviceAttrs[n].values) ELSE 0]

\* The attributes of the schema whose history is longer than before the batch.
GrownAttrs(deviceState, pollRespMetadata, attrLengthsBefore) ==
    {n \in {pollRespMetadata.a[i].n : i \in 1..Len(pollRespMetadata.a)} :
        /\ n \in DOMAIN deviceState.deviceAttributes
        /\ Len(deviceState.deviceAttributes[n].values) >
              (IF n \in DOMAIN attrLengthsBefore THEN attrLengthsBefore[n] ELSE 0)}

emitDecodedData(s, deviceKey, busName, devAddr, deviceState, pollRespMetadata, attrLengthsBefore, timelineLenBefore, attrGroupName, markers) ==
    IF pollRespMetadata = Undefined THEN s
    ELSE LET grown == GrownAttrs(deviceState, pollRespMetadata, attrLengthsBefore)
             attrValues == [n \in grown |->
                               DropN(deviceState.deviceAttributes[n].values,
                                     attrLengthsBefore[n])]
             decoded == [deviceKey |-> deviceKey, busName |-> busName,
                         deviceAddress |-> devAddr,
                         deviceType |-> deviceState.deviceType,
                         attrGroupName |-> attrGroupName,
                         attrValues |-> attrValues,
                         timestampsUs |-> DropN(deviceState.deviceTimeline.timestampsUs,
                                                timelineLenBefore),
                         markers |-> markers]
         IN  IF grown = {} THEN s
             ELSE [s EXCEPT !.cbLog = @ \o Invoke(s.decodedDataCallbacks, "decodedData",
                                                  deviceKey, decoded)]

\* The callbacks processStateCallback makes for one attribute, and its flags cleared.
AttrCallbacks(s, deviceKey, attrState) ==
    (IF attrState.newAttribute
     THEN Invoke(s.newDeviceAttributeCallbacks, "newAttribute", deviceKey, attrState.name)
     ELSE <<>>)
    \o (IF attrState.newData
        THEN Invoke(s.newAttributeDataCallbacks, "newData", deviceKey, attrState.name)
        ELSE <<>>)

RECURSIVE AttrsCallbacks(_, _, _, _)
AttrsCallbacks(s, deviceKey, attrs, names) ==
    IF names = <<>> THEN <<>>
    ELSE AttrCallbacks(s, deviceKey, attrs[Head(names)])
         \o AttrsCallbacks(s, deviceKey, attrs, Tail(names))

RECURSIVE DevicesCallbacks(_, _)
DevicesCallbacks(s, keys) ==
    IF keys = <<>> THEN <<>>
    ELSE LET deviceKey == Head(keys)
             deviceState == s.devicesState[deviceKey]
         IN  (IF deviceState.deviceIsNew
              THEN Invoke(s.newDeviceCallbacks, "newDevice", deviceKey, deviceState.deviceType)
              ELSE <<>>)
             \o AttrsCallbacks(s, deviceKey, deviceState.deviceAttributes,
                               SetToSeq(DOMAIN deviceState.deviceAttributes))
             \o DevicesCallbacks(s, Tail(keys))

processStateCallback(s) ==
    [s EXCEPT
       !.cbLog = @ \o DevicesCallbacks(s, SetToSeq(DOMAIN s.devicesState)),
       !.devicesState =
           [k \in DOMAIN s.devicesState |->
               [s.devicesState[k] EXCEPT
                   !.deviceIsNew = FALSE,
                   !.deviceAttributes =
                       [n \in DOMAIN s.devicesState[k].deviceAttributes |->
                           [s.devicesState[k].deviceAttributes[n] EXCEPT
                               !.newAttribute = FALSE, !.newData = FALSE]]]]]

\* The liveness sweep both handlers end with.
StaleKeys(s) ==
    {k \in DOMAIN s.deviceLastUpdateTime :
        s.now - s.deviceLastUpdateTime[k] > RemoveDevicesTimeMs}

removeStaleDevices(s) ==
    [s EXCEPT
       !.devicesState = [k \in (DOMAIN s.devicesState) \ StaleKeys(s) |-> s.devicesState[k]],
       !.deviceStats = [k \in (DOMAIN s.deviceStats) \ StaleKeys(s) |-> s.deviceStats[k]]]

(***************************************************************************)
(* handleClientMsgBinary                                                   *)
(***************************************************************************)
\* _systemUtils?.getPublishTopicName(topicIndex)
getPublishTopicName(s, topicIndex) ==
    IF s.systemUtils = Null THEN Undefined
    ELSE IF topicIndex \in DOMAIN s.systemUtils.topics
         THEN s.systemUtils.topics[topicIndex]
         ELSE Undefined

\* topicName && topicName !== "devbin": the frame belongs to another topic.
OtherTopic(s, topicIndex) ==
    /\ topicIndex # 255
    /\ getPublishTopicName(s, topicIndex) # Undefined
    /\ getPublishTopicName(s, topicIndex) # StrDevbin

\* The envelope check: the position of the first record, or -1 when the
\* handler returns at once.
EnvelopeCheck_AnyTopic(s, rxMsg) ==
    IF Len(rxMsg) >= MsgTypeLen + DevbinEnvelopeLen
       /\ HighNibble(ByteAt(rxMsg, MsgTypeLen)) = 208
    THEN IF ByteAt(rxMsg, MsgTypeLen) < DevbinMagicMin
            \/ ByteAt(rxMsg, MsgTypeLen) > DevbinMagicMax
         THEN -1
         ELSE MsgTypeLen + DevbinEnvelopeLen
    ELSE MsgTypeLen
EnvelopeCheck(s, rxMsg) ==
    IF Len(rxMsg) >= MsgTypeLen + DevbinEnvelopeLen
       /\ HighNibble(ByteAt(rxMsg, MsgTypeLen)) = 208
    THEN IF ByteAt(rxMsg, MsgTypeLen) < DevbinMagicMin
            \/ ByteAt(rxMsg, MsgTypeLen) > DevbinMagicMax
         THEN -1
         ELSE IF OtherTopic(s, ByteAt(rxMsg, MsgTypeLen + 1))
         THEN -1
         ELSE MsgTypeLen + DevbinEnvelopeLen
    ELSE MsgTypeLen

\* The fields of the record that starts at msgPos.
RecordLenAt(rxMsg, msgPos) == U16BE(ByteAt(rxMsg, msgPos), ByteAt(rxMsg, msgPos + 1))

DevAddrAt(rxMsg, recordPos) ==
    Shl24(ByteAt(rxMsg, recordPos)) + ByteAt(rxMsg, recordPos + 1) * 65536
        + ByteAt(rxMsg, recordPos + 2) * 256 + ByteAt(rxMsg, recordPos + 3)

IsPendingDeletion_Never(statusByte) == FALSE
IsPendingDeletion(statusByte) == Bit6(statusByte)

RecordHeader(rxMsg, msgPos) ==
    LET statusByte == ByteAt(rxMsg, msgPos + RecordLenLen)
        busNum == LowNibble(statusByte)
        devAddr == DevAddrAt(rxMsg, msgPos + RecordLenLen + BusInfoLen)
        devAddrHex == formatDeviceAddrHex(devAddr)
    IN  [recordLen |-> RecordLenAt(rxMsg, msgPos),
         busName |-> NumberToString(busNum, 10),
         isOnline |-> Bit7(statusByte),
         isPendingDeletion |-> IsPendingDeletion(statusByte),
         devAddrHex |-> devAddrHex,
         devTypeIdx |-> U16BE(ByteAt(rxMsg, msgPos + RecordLenLen + BusInfoLen + DeviceAddrLen),
                              ByteAt(rxMsg, msgPos + RecordLenLen + BusInfoLen + DeviceAddrLen + 1)),
         pollDataPos |-> msgPos + RecordLenLen + RecordHeaderLen,
         deviceKey |-> getDeviceKey(NumberToString(busNum, 10), devAddrHex)]

\* msgPos += recordLenLen + recordLen
NextRecordPos_BodyOnly(msgPos, recordLen) == msgPos + recordLen
NextRecordPos(msgPos, recordLen) == msgPos + RecordLenLen + recordLen

\* The record is malformed: the handler returns.
RecordOverruns_HeaderOnly(rxMsg, msgPos) ==
    Len(rxMsg) - msgPos < RecordLenLen + RecordHeaderLen
RecordOverruns(rxMsg, msgPos) ==
    \/ Len(rxMsg) - msgPos < RecordLenLen + RecordHeaderLen
    \/ RecordLenAt(rxMsg, msgPos) > (Len(rxMsg) - msgPos) - RecordLenLen

\* The maxDataPoints argument both handlers hand to processMsgAttrGroup.
MaxDataPointsArg_OneMore(s) == s.maxDatapointsToStore + 1
MaxDataPointsArg(s) == s.maxDatapointsToStore

\* The poll data loop of one record: decode while data remains and the decoder
\* advances.  dev is the DeviceState being updated.
RECURSIVE BinDecodeLoop(_, _, _, _, _, _)
BinDecodeLoop_DropStalledCall(dev, rxMsg, pollDataPos, pollDataEnd, pollRespMetadata, maxDataPoints) ==
    IF ~(pollDataPos < pollDataEnd) \/ pollDataPos >= Len(rxMsg) THEN dev
    ELSE LET r == processMsgAttrGroup(rxMsg, pollDataPos, dev.deviceTimeline,
                                      pollRespMetadata, dev.deviceAttributes,
                                      maxDataPoints)
             dev1 == [dev EXCEPT !.deviceTimeline = r.deviceTimeline,
                                 !.deviceAttributes = r.deviceAttributes]
         IN  IF r.newMsgBufIdx < 0 THEN dev1
             ELSE IF r.newMsgBufIdx <= pollDataPos THEN dev
             ELSE BinDecodeLoop([dev1 EXCEPT !.stateChanged = TRUE], rxMsg,
                                r.newMsgBufIdx, pollDataEnd, pollRespMetadata,
                                maxDataPoints)

BinDecodeLoop(dev, rxMsg, pollDataPos, pollDataEnd, pollRespMetadata, maxDataPoints) ==
    IF ~(pollDataPos < pollDataEnd) \/ pollDataPos >= Len(rxMsg) THEN dev
    ELSE LET r == processMsgAttrGroup(rxMsg, pollDataPos, dev.deviceTimeline,
                                      pollRespMetadata, dev.deviceAttributes,
                                      maxDataPoints)
             dev1 == [dev EXCEPT !.deviceTimeline = r.deviceTimeline,
                                 !.deviceAttributes = r.deviceAttributes]
         IN  IF r.newMsgBufIdx < 0 THEN dev1
             ELSE IF r.newMsgBufIdx <= pollDataPos THEN dev1
             ELSE BinDecodeLoop([dev1 EXCEPT !.stateChanged = TRUE], rxMsg,
                                r.newMsgBufIdx, pollDataEnd, pollRespMetadata,
                                maxDataPoints)

\* Lines 383-441: the record of a device whose state exists.
BinRecordBody(s, hdr, rxMsg) ==
    LET dev0 == [s.devicesState[hdr.deviceKey] EXCEPT
                    !.onlineState = IF hdr.isOnline THEN Online ELSE Offline]
        resp == dev0.deviceTypeInfo.resp
    IN  IF dev0.deviceTypeInfo # Undefined /\ resp # Undefined
        THEN LET attrLengthsBefore == snapshotAttrLengths(dev0.deviceAttributes, resp)
                 timelineLenBefore == Len(dev0.deviceTimeline.timestampsUs)
                 dev1 == BinDecodeLoop(dev0, rxMsg, hdr.pollDataPos,
                                       hdr.pollDataPos + (hdr.recordLen - RecordHeaderLen),
                                       resp, MaxDataPointsArg(s))
                 s1 == [s EXCEPT !.devicesState[hdr.deviceKey] = dev1]
                 s2 == emitDecodedData(s1, hdr.deviceKey, hdr.busName, hdr.devAddrHex,
                                       dev1, resp, attrLengthsBefore, timelineLenBefore,
                                       <<>>, Undefined)
                 newSamples == Len(dev1.deviceTimeline.timestampsUs) - timelineLenBefore
             IN  [s2 EXCEPT !.deviceStats =
                     updateDeviceStats(@, hdr.deviceKey, newSamples, s.now)]
        ELSE [s EXCEPT !.devicesState[hdr.deviceKey] = dev0]

\* Lines 450-462: the sweep and the callback dispatch that end the handler.
HandlerTail(s) == processStateCallback(removeStaleDevices(s))

\* Line 339: the record needs the device type info.
NeedsTypeInfo(s, deviceKey) ==
    \/ deviceKey \notin DOMAIN s.devicesState
    \/ s.devicesState[deviceKey].deviceTypeInfo = Undefined

\* The while loop of line 286, from the task's msgPos, up to the handler's
\* return or its next await.
RECURSIVE BinLoop(_, _)
BinLoop(s, t) ==
    LET rxMsg == s.tasks[t].frame
        msgPos == s.tasks[t].msgPos
    IN  IF ~(msgPos < Len(rxMsg)) THEN Finish(HandlerTail(s), t, "completed")
        ELSE IF RecordOverruns(rxMsg, msgPos) THEN Finish(s, t, "aborted")
        ELSE LET hdr == RecordHeader(rxMsg, msgPos)
                 s1 == [s EXCEPT
                          !.deviceLastUpdateTime = MapPut(@, hdr.deviceKey, s.now),
                          !.tasks[t].visited = Append(@, msgPos)]
             IN  IF hdr.isPendingDeletion
                 THEN BinLoop([removeDevice(s1, hdr.deviceKey) EXCEPT
                                  !.tasks[t].msgPos = NextRecordPos(msgPos, hdr.recordLen)], t)
                 ELSE IF NeedsTypeInfo(s1, hdr.deviceKey)
                 THEN getDeviceTypeInfo(s1, t, hdr.busName,
                                        NumberToString(hdr.devTypeIdx, 10))
                 ELSE BinLoop([BinRecordBody(s1, hdr, rxMsg) EXCEPT
                                  !.tasks[t].msgPos = NextRecordPos(msgPos, hdr.recordLen)], t)

\* Lines 348-381, after `await getDeviceTypeInfo`: the device record is filled
\* in or created, unless the type info is not available.
BinAfterTypeInfo_AlwaysCreate(s, hdr, deviceTypeInfo) ==
    [s EXCEPT !.devicesState =
        MapPut(@, hdr.deviceKey,
               NewDeviceState(deviceTypeInfo, hdr.devAddrHex,
                              deviceTypeInfo.name, hdr.busName))]
BinAfterTypeInfo(s, hdr, deviceTypeInfo) ==
    IF hdr.deviceKey \in DOMAIN s.devicesState
    THEN [s EXCEPT !.devicesState[hdr.deviceKey] =
            [@ EXCEPT !.deviceTypeInfo = deviceTypeInfo,
                      !.deviceType = deviceTypeInfo.name,
                      !.busName = hdr.busName,
                      !.deviceAddress = hdr.devAddrHex]]
    ELSE [s EXCEPT !.devicesState =
            MapPut(@, hdr.deviceKey,
                   NewDeviceState(deviceTypeInfo, hdr.devAddrHex,
                                  deviceTypeInfo.name, hdr.busName))]

\* The binary handler resumes after its await.
BinResume_ReturnWhenUnresolved(s, t) ==
    LET rxMsg == s.tasks[t].frame
        msgPos == s.tasks[t].msgPos
        hdr == RecordHeader(rxMsg, msgPos)
        deviceTypeInfo == s.tasks[t].result
        next == NextRecordPos(msgPos, hdr.recordLen)
    IN  IF deviceTypeInfo = Undefined
        THEN Finish([s EXCEPT !.tasks[t].msgPos = next], t, "aborted")
        ELSE BinLoop([BinRecordBody(BinAfterTypeInfo(s, hdr, deviceTypeInfo), hdr, rxMsg)
                         EXCEPT !.tasks[t].msgPos = next, !.tasks[t].pc = "run"], t)
BinResume(s, t) ==
    LET rxMsg == s.tasks[t].frame
        msgPos == s.tasks[t].msgPos
        hdr == RecordHeader(rxMsg, msgPos)
        deviceTypeInfo == s.tasks[t].result
        next == NextRecordPos(msgPos, hdr.recordLen)
    IN  IF deviceTypeInfo = Undefined
        THEN BinLoop([s EXCEPT !.tasks[t].msgPos = next, !.tasks[t].pc = "run"], t)
        ELSE BinLoop([BinRecordBody(BinAfterTypeInfo(s, hdr, deviceTypeInfo), hdr, rxMsg)
                         EXCEPT !.tasks[t].msgPos = next, !.tasks[t].pc = "run"], t)

\* handleClientMsgBinary from its first line.
handleClientMsgBinary(s, t) ==
    LET rxMsg == s.tasks[t].frame
        start == EnvelopeCheck(s, rxMsg)
    IN  IF start < 0 THEN Finish(s, t, "aborted")
        ELSE BinLoop([s EXCEPT !.tasks[t].msgPos = start], t)

(***************************************************************************)
(* handleClientMsgJson.  A parsed JSON value is a tagged record; an object *)
(* keeps its members in the order Object.entries lists them.               *)
(***************************************************************************)
JsonObject(members) == [ty |-> "object", members |-> members]
JsonString(str) == [ty |-> "string", s |-> str]
JsonNumber(n) == [ty |-> "number", n |-> n]
Member(k, v) == [k |-> k, v |-> v]

\* key in obj
JsonHas(obj, key) ==
    obj.ty = "object" /\ \E i \in 1..Len(obj.members) : obj.members[i].k = key
\* obj[key]
JsonGet(obj, key) ==
    obj.members[CHOOSE i \in 1..Len(obj.members) : obj.members[i].k = key].v

\* str.startsWith("_")
StartsWithUnderscore(str) == Len(str) > 0 /\ str[1] = "_"

\* The value of one hex digit character, or -1 for any other character.
HexDigitValue(c) ==
    IF \E i \in 1..16 : DigitChars[i] = c
    THEN (CHOOSE i \in 1..16 : DigitChars[i] = c) - 1
    ELSE -1

\* parseInt(pair, 16) stored into a Uint8Array: NaN is stored as 0.
ParseHexPair(c1, c2) ==
    IF HexDigitValue(c1) < 0 THEN 0
    ELSE IF HexDigitValue(c2) < 0 THEN HexDigitValue(c1)
    ELSE HexDigitValue(c1) * 16 + HexDigitValue(c2)

hexToBytes(hex) ==
    [i \in 1..(Len(hex) \div 2) |-> ParseHexPair(hex[2 * i - 1], hex[2 * i])]

\* parseInt(str, 10) of a string of decimal digits (NaN is given as -1).
RECURSIVE ParseDecimal(_, _)
ParseDecimal(str, acc) ==
    IF str = <<>> THEN acc
    ELSE IF HexDigitValue(Head(str)) < 0 \/ HexDigitValue(Head(str)) > 9 THEN acc
    ELSE ParseDecimal(Tail(str), (IF acc < 0 THEN 0 ELSE acc) * 10 + HexDigitValue(Head(str)))

\* Lines 499-508: the device entry names its type by _t (a string) or _i (a number).
HasDeviceType(attrGroups) ==
    \/ (JsonHas(attrGroups, StrT) /\ JsonGet(attrGroups, StrT).ty = "string")
    \/ (JsonHas(attrGroups, StrI) /\ JsonGet(attrGroups, StrI).ty = "number")

DeviceTypeName(attrGroups) ==
    IF JsonHas(attrGroups, StrT) /\ JsonGet(attrGroups, StrT).ty = "string"
    THEN JsonGet(attrGroups, StrT).s
    ELSE NumberToString(JsonGet(attrGroups, StrI).n, 10)

\* Line 555: the numeric value of _o.
OnlineStateVal_Truthy(attrGroups) ==
    IF JsonGet(attrGroups, StrO).ty = "number"
    THEN (IF JsonGet(attrGroups, StrO).n = 0 THEN 0 ELSE 1)
    ELSE 1
OnlineStateVal(attrGroups) ==
    IF JsonGet(attrGroups, StrO).ty = "number" THEN JsonGet(attrGroups, StrO).n
    ELSE IF JsonGet(attrGroups, StrO).ty = "string"
         THEN ParseDecimal(JsonGet(attrGroups, StrO).s, -1)
         ELSE -1

\* The keys extractMarkers keeps.
IsMarkerKey(key) == StartsWithUnderscore(key) /\ key # StrT /\ key # StrO

extractMarkers(attrGroups) ==
    IF attrGroups.ty # "object" THEN <<>>
    ELSE SelectSeq(attrGroups.members, LAMBDA m : IsMarkerKey(m.k))

\* The decode loop of one attribute group (lines 597-607).
\* The loop has no test that the cursor advanced: when the decoder returns a
\* cursor that is not negative and not beyond the current one, the loop calls
\* it again from a position it has been at, without end.  JsonLoopSpins tells
\* whether that happens; JsonDecodeLoop then gives the device as it is after
\* the first of these calls.
RECURSIVE JsonLoopSpins(_, _, _, _, _)
JsonLoopSpins(dev, msgBytes, msgBufIdx, pollRespMetadata, maxDataPoints) ==
    IF ~(msgBufIdx < Len(msgBytes)) THEN FALSE
    ELSE LET r == processMsgAttrGroup(msgBytes, msgBufIdx, dev.deviceTimeline,
                                      pollRespMetadata, dev.deviceAttributes,
                                      maxDataPoints)
             dev1 == [dev EXCEPT !.deviceTimeline = r.deviceTimeline,
                                 !.deviceAttributes = r.deviceAttributes]
         IN  IF r.newMsgBufIdx < 0 THEN FALSE
             ELSE IF r.newMsgBufIdx <= msgBufIdx THEN TRUE
             ELSE JsonLoopSpins([dev1 EXCEPT !.stateChanged = TRUE], msgBytes,
                                r.newMsgBufIdx, pollRespMetadata, maxDataPoints)

RECURSIVE JsonDecodeLoop(_, _, _, _, _)
JsonDecodeLoop(dev, msgBytes, msgBufIdx, pollRespMetadata, maxDataPoints) ==
    IF ~(msgBufIdx < Len(msgBytes)) THEN dev
    ELSE LET r == processMsgAttrGroup(msgBytes, msgBufIdx, dev.deviceTimeline,
                                      pollRespMetadata, dev.deviceAttributes,
                                      maxDataPoints)
             dev1 == [dev EXCEPT !.deviceTimeline = r.deviceTimeline,
                                 !.deviceAttributes = r.deviceAttributes]
         IN  IF r.newMsgBufIdx < 0 THEN dev1
             ELSE IF r.newMsgBufIdx <= msgBufIdx THEN [dev1 EXCEPT !.stateChanged = TRUE]
             ELSE JsonDecodeLoop([dev1 EXCEPT !.stateChanged = TRUE], msgBytes,
                                 r.newMsgBufIdx, pollRespMetadata, maxDataPoints)

\* A handler that never returns keeps the thread: no task and no microtask
\* runs after it.  It is the job at the head of the microtask queue for good.
SpinJob == [task |-> 0, job |-> "spin"]
Spinning(s) == s.microtasks # <<>> /\ Head(s.microtasks) = SpinJob

\* One attribute group of a device entry (the body of the forEach of line 572).
JsonAttrGroup(s, deviceKey, busName, devAddr, attrGroupName, msgHexStr, markers) ==
    LET dev0 == s.devicesState[deviceKey]
        resp == dev0.deviceTypeInfo.resp
    IN  IF StartsWithUnderscore(attrGroupName) \/ msgHexStr.ty # "string" THEN s
        ELSE IF resp = Undefined THEN s
        ELSE LET msgBytes == hexToBytes(msgHexStr.s)
                 attrLengthsBefore == snapshotAttrLengths(dev0.deviceAttributes, resp)
                 timelineLenBefore == Len(dev0.deviceTimeline.timestampsUs)
                 dev1 == JsonDecodeLoop(dev0, msgBytes, 0, resp, MaxDataPointsArg(s))
                 s1 == [s EXCEPT !.devicesState[deviceKey] = dev1]
                 s2 == emitDecodedData(s1, deviceKey, busName, devAddr, dev1, resp,
                                       attrLengthsBefore, timelineLenBefore,
                                       attrGroupName, markers)
                 newSamples == Len(dev1.deviceTimeline.timestampsUs) - timelineLenBefore
             IN  IF JsonLoopSpins(dev0, msgBytes, 0, resp, MaxDataPointsArg(s))
                 THEN [s1 EXCEPT !.microtasks = <<SpinJob>> \o @]
                 ELSE [s2 EXCEPT !.deviceStats =
                         updateDeviceStats(@, deviceKey, newSamples, s.now)]

RECURSIVE JsonAttrGroups(_, _, _, _, _, _)
JsonAttrGroups(s, deviceKey, busName, devAddr, members, markers) ==
    IF members = <<>> \/ Spinning(s) THEN s
    ELSE JsonAttrGroups(
            JsonAttrGroup(s, deviceKey, busName, devAddr, Head(members).k,
                          Head(members).v, markers),
            deviceKey, busName, devAddr, Tail(members), markers)

\* Lines 550-614: a device entry whose DeviceState exists.
JsonDeviceBody(s, busName, devAddr, attrGroups) ==
    LET deviceKey == getDeviceKey(busName, devAddr)
        hasO == JsonHas(attrGroups, StrO)
        s1 == IF hasO
              THEN [s EXCEPT !.devicesState[deviceKey].onlineState =
                       IF OnlineStateVal(attrGroups) = 1 THEN Online ELSE Offline]
              ELSE s
    IN  IF hasO /\ OnlineStateVal(attrGroups) = 2 THEN removeDevice(s, deviceKey)
        ELSE IF s1.devicesState[deviceKey].deviceTypeInfo = Undefined THEN s1
        ELSE JsonAttrGroups(s1, deviceKey, busName, devAddr, attrGroups.members,
                            extractMarkers(attrGroups))

\* Lines 522-548, after `await getDeviceTypeInfo`.
JsonAfterTypeInfo(s, busName, devAddr, deviceTypeName, deviceTypeInfo) ==
    LET deviceKey == getDeviceKey(busName, devAddr)
    IN  IF deviceKey \in DOMAIN s.devicesState
        THEN IF deviceTypeInfo # Undefined
             THEN [s EXCEPT !.devicesState[deviceKey] =
                     [@ EXCEPT !.deviceTypeInfo = deviceTypeInfo,
                               !.deviceType = deviceTypeName,
                               !.deviceAddress = devAddr,
                               !.busName = busName]]
             ELSE s
        ELSE [s EXCEPT !.devicesState =
                MapPut(@, deviceKey,
                       NewDeviceState(deviceTypeInfo, devAddr, deviceTypeName, busName))]

\* A device closure resumes after its await.
JsonResume(s, t) ==
    LET f == s.tasks[t].frame
        s1 == JsonAfterTypeInfo(s, f.busName, f.devAddr, DeviceTypeName(f.attrGroups),
                                s.tasks[t].result)
        s2 == JsonDeviceBody(s1, f.busName, f.devAddr, f.attrGroups)
    IN  IF Spinning(s2) THEN s2 ELSE Finish(s2, t, "completed")

\* The closure of line 489 for one device entry, up to its return or its await.
JsonDevice(s, busName, devAddr, attrGroups) ==
    IF StartsWithUnderscore(devAddr) THEN s
    ELSE IF ~HasDeviceType(attrGroups) THEN s
    ELSE LET deviceKey == getDeviceKey(busName, devAddr)
             s1 == [s EXCEPT !.deviceLastUpdateTime = MapPut(@, deviceKey, s.now)]
         IN  IF NeedsTypeInfo(s1, deviceKey)
             THEN getDeviceTypeInfo(
                     [s1 EXCEPT !.tasks = Append(@,
                         NewTask("json", [busName |-> busName, devAddr |-> devAddr,
                                          attrGroups |-> attrGroups]))],
                     Len(s1.tasks) + 1, busName, DeviceTypeName(attrGroups))
             ELSE JsonDeviceBody(s1, busName, devAddr, attrGroups)

RECURSIVE JsonDevices(_, _, _)
JsonDevices(s, busName, members) ==
    IF members = <<>> \/ Spinning(s) THEN s
    ELSE JsonDevices(JsonDevice(s, busName, Head(members).k, Head(members).v),
                     busName, Tail(members))

\* The closure of line 475 for one bus entry.
JsonBus(s, busName, devices) ==
    IF StartsWithUnderscore(busName) THEN s
    ELSE IF JsonHas(devices, StrS) THEN s
    ELSE IF devices.ty # "object" THEN s
    ELSE JsonDevices(s, busName, devices.members)

RECURSIVE JsonBuses(_, _)
JsonBuses(s, members) ==
    IF members = <<>> \/ Spinning(s) THEN s
    ELSE JsonBuses(JsonBus(s, Head(members).k, Head(members).v), Tail(members))

\* handleClientMsgJson for the parsed message `data`.
handleClientMsgJson(s, data) ==
    LET s1 == IF data.ty = "object" THEN JsonBuses(s, data.members) ELSE s
    IN  IF Spinning(s1) THEN s1 ELSE HandlerTail(s1)

(***************************************************************************)
(* Actions.  A task (macrotask) starts only when the microtask queue is    *)
(* empty; a microtask is always the head of the queue.                     *)
(***************************************************************************)
Idle == microtasks = <<>>

Unchanged_Config ==
    UNCHANGED <<systemUtils, maxDatapointsToStore, deviceRemovedCallbacks,
                newDeviceCallbacks, newDeviceAttributeCallbacks,
                newAttributeDataCallbacks, decodedDataCallbacks, capChanged>>

Unchanged_DeviceManager ==
    UNCHANGED <<devicesState, deviceLastUpdateTime, deviceStats,
                cachedDeviceTypeRecs, cachedDeviceTypePreviousAttemptTimes,
                pendingDeviceTypeRequests, rpcInFlight, tasks, microtasks,
                fetchRound, fetchLog, delivered>>

Unchanged_Program == Unchanged_DeviceManager /\ UNCHANGED stream

\* setup(systemUtils)
Setup(su) ==
    /\ Idle
    /\ systemUtils = Null
    /\ systemUtils' = su
    /\ cbLog' = <<>>
    /\ Unchanged_Program
    /\ UNCHANGED <<now, ticks, framesDelivered, maxDatapointsToStore,
                   deviceRemovedCallbacks, newDeviceCallbacks,
                   newDeviceAttributeCallbacks, newAttributeDataCallbacks,
                   decodedDataCallbacks, capChanged>>

\* setMaxDataPointsToStore(n)
SetMaxDataPointsToStore(n) ==
    /\ Idle
    /\ maxDatapointsToStore # n
    /\ maxDatapointsToStore' = n
    /\ capChanged' = (capChanged \/ framesDelivered > 0)
    /\ cbLog' = <<>>
    /\ Unchanged_Program
    /\ UNCHANGED <<now, ticks, framesDelivered, systemUtils,
                   deviceRemovedCallbacks, newDeviceCallbacks,
                   newDeviceAttributeCallbacks, newAttributeDataCallbacks,
                   decodedDataCallbacks>>

\* addDeviceRemovedCallback(cb)
AddDeviceRemovedCallback(cb) ==
    /\ Idle
    /\ \A i \in 1..Len(deviceRemovedCallbacks) : deviceRemovedCallbacks[i] # cb
    /\ deviceRemovedCallbacks' = Append(deviceRemovedCallbacks, cb)
    /\ cbLog' = <<>>
    /\ Unchanged_Program
    /\ UNCHANGED <<now, ticks, framesDelivered, systemUtils, maxDatapointsToStore,
                   newDeviceCallbacks, newDeviceAttributeCallbacks,
                   newAttributeDataCallbacks, decodedDataCallbacks, capChanged>>

\* addNewDeviceCallback(cb)
AddNewDeviceCallback(cb) ==
    /\ Idle
    /\ \A i \in 1..Len(newDeviceCallbacks) : newDeviceCallbacks[i] # cb
    /\ newDeviceCallbacks' = Append(newDeviceCallbacks, cb)
    /\ cbLog' = <<>>
    /\ Unchanged_Program
    /\ UNCHANGED <<now, ticks, framesDelivered, systemUtils, maxDatapointsToStore,
                   deviceRemovedCallbacks, newDeviceAttributeCallbacks,
                   newAttributeDataCallbacks, decodedDataCallbacks, capChanged>>

\* addNewAttributeCallback(cb)
AddNewAttributeCallback(cb) ==
    /\ Idle
    /\ \A i \in 1..Len(newDeviceAttributeCallbacks) : newDeviceAttributeCallbacks[i] # cb
    /\ newDeviceAttributeCallbacks' = Append(newDeviceAttributeCallbacks, cb)
    /\ cbLog' = <<>>
    /\ Unchanged_Program
    /\ UNCHANGED <<now, ticks, framesDelivered, systemUtils, maxDatapointsToStore,
                   deviceRemovedCallbacks, newDeviceCallbacks,
                   newAttributeDataCallbacks, decodedDataCallbacks, capChanged>>

\* addAttributeDataCallback(cb)
AddAttributeDataCallback(cb) ==
    /\ Idle
    /\ \A i \in 1..Len(newAttributeDataCallbacks) : newAttributeDataCallbacks[i] # cb
    /\ newAttributeDataCallbacks' = Append(newAttributeDataCallbacks, cb)
    /\ cbLog' = <<>>
    /\ Unchanged_Program
    /\ UNCHANGED <<now, ticks, framesDelivered, systemUtils, maxDatapointsToStore,
                   deviceRemovedCallbacks, newDeviceCallbacks,
                   newDeviceAttributeCallbacks, decodedDataCallbacks, capChanged>>

\* addDecodedDataCallback(cb)
AddDecodedDataCallback(cb) ==
    /\ Idle
    /\ \A i \in 1..Len(decodedDataCallbacks) : decodedDataCallbacks[i] # cb
    /\ decodedDataCallbacks' = Append(decodedDataCallbacks, cb)
    /\ cbLog' = <<>>
    /\ Unchanged_Program
    /\ UNCHANGED <<now, ticks, framesDelivered, systemUtils, maxDatapointsToStore,
                   deviceRemovedCallbacks, newDeviceCallbacks,
                   newDeviceAttributeCallbacks, newAttributeDataCallbacks, capChanged>>

\* Time passes by d ms.
Tick(d) ==
    /\ Idle
    /\ ticks < MaxTicks
    /\ now' = now + d
    /\ ticks' = ticks + 1
    /\ cbLog' = <<>>
    /\ Unchanged_Program
    /\ Unchanged_Config
    /\ UNCHANGED framesDelivered

\* A binary frame arrives: handleClientMsgBinary(rxMsg) runs to its first await
\* or to its return.
DeliverBinary(rxMsg) ==
    /\ Idle
    /\ framesDelivered < MaxFrames
    /\ framesDelivered' = framesDelivered + 1
    /\ Commit(handleClientMsgBinary(
                 [State EXCEPT !.tasks = Append(@, NewTask("bin", rxMsg))],
                 Len(tasks) + 1))
    /\ Unchanged_Config
    /\ UNCHANGED <<now, ticks>>

\* A JSON frame arrives: handleClientMsgJson runs; each device closure runs to
\* its first await or to its return.
DeliverJson(data) ==
    /\ Idle
    /\ framesDelivered < MaxFrames
    /\ framesDelivered' = framesDelivered + 1
    /\ Commit(handleClientMsgJson(State, data))
    /\ Unchanged_Config
    /\ UNCHANGED <<now, ticks>>

\* The typeinfo RPC numbered i is answered (or raises).
RpcResponse(i, resp) ==
    /\ Idle
    /\ i \in 1..Len(rpcInFlight)
    /\ Commit(executeDeviceTypeInfoRequestDone(
                 [State EXCEPT !.rpcInFlight =
                     SubSeq(@, 1, i - 1) \o SubSeq(@, i + 1, Len(@))],
                 rpcInFlight[i], resp))
    /\ Unchanged_Config
    /\ UNCHANGED <<now, ticks, framesDelivered>>

\* The state with the head of the microtask queue taken off.
Popped == [State EXCEPT !.microtasks = Tail(@)]

\* Microtask: getDeviceTypeInfo continues after `await requestPromise`.
RunRequestSettled ==
    /\ microtasks # <<>>
    /\ Head(microtasks).job = "initCont"
    /\ Commit(getDeviceTypeInfoSettled(Popped, Head(microtasks).task))
    /\ Unchanged_Config
    /\ UNCHANGED <<now, ticks, framesDelivered>>

\* Microtask: the promise a waiter returned is resolved.
RunWaiterResolved ==
    /\ microtasks # <<>>
    /\ Head(microtasks).job = "react"
    /\ Commit(WaiterResolved(Popped, Head(microtasks).task))
    /\ Unchanged_Config
    /\ UNCHANGED <<now, ticks, framesDelivered>>

\* Microtask: a handler continues after `await getDeviceTypeInfo`; a rejected
\* await raises out of the handler, which has no try/catch around it.
RunHandlerResumed ==
    /\ microtasks # <<>>
    /\ Head(microtasks).job = "callerCont"
    /\ LET t == Head(microtasks).task
           s == NoteDelivered(Popped, t)
       IN  Commit(IF tasks[t].settle = "rejected" THEN Finish(s, t, "threw")
                  ELSE IF tasks[t].kind = "bin" THEN BinResume(s, t)
                  ELSE JsonResume(s, t))
    /\ Unchanged_Config
    /\ UNCHANGED <<now, ticks, framesDelivered>>

RunMicrotask == RunRequestSettled \/ RunWaiterResolved \/ RunHandlerResumed

(***************************************************************************)
(* Inputs                                                                  *)
(***************************************************************************)
\* The transport's 2-byte message type prefix (0x0080).
MsgTypePrefix == <<0, 128>>

\* A devbin record: length, statusBus, 4 address bytes, type index, poll data.
MkRecord(statusBus, addr, devTypeIdx, pollData) ==
    <<(RecordHeaderLen + Len(pollData)) \div 256, (RecordHeaderLen + Len(pollData)) % 256,
      statusBus>> \o addr \o <<devTypeIdx \div 256, devTypeIdx % 256>> \o pollData

\* The systemUtils handed to setup: with or without a message handler; the
\* firmware's topic table names topic 1 devbin and topic 2 devjson.
TopicTable == [i \in {1, 2} |-> IF i = 1 THEN StrDevbin ELSE StrDevjson]
SystemUtilsReady == [msgHandler |-> TRUE, topics |-> TopicTable]
SystemUtilsNoHandler == [msgHandler |-> FALSE, topics |-> TopicTable]

Addr6a == <<0, 0, 0, 106>>
Addr6b == <<0, 0, 0, 107>>

(***************************************************************************)
(* SpecCache: the device type cache under concurrent callers.  Frames of   *)
(* two devices of type 11 arrive while typeinfo requests are answered,     *)
(* fail or raise, and while time passes around the retry interval.         *)
(***************************************************************************)
StrBus1 == <<"1">>
Str6a == <<"6", "a">>
Str6b == <<"6", "b">>
StrHex05 == <<"0", "5">>
StrHex06 == <<"0", "6">>

\* 0080 DBFF 0008 81 0000006a 000b 05
CacheFrameA == MsgTypePrefix \o <<219, 255>> \o MkRecord(129, Addr6a, 11, <<5>>)
\* 0080 DBFF 0008 81 0000006b 000b 06
CacheFrameB == MsgTypePrefix \o <<219, 255>> \o MkRecord(129, Addr6b, 11, <<6>>)
\* {"1":{"6a":{"_i":11,"x1":"05"},"6b":{"_i":11,"x1":"06"}}}
CacheJsonAB ==
    JsonObject(<<Member(StrBus1, JsonObject(<<
        Member(Str6a, JsonObject(<<Member(StrI, JsonNumber(11)),
                                   Member(StrX1, JsonString(StrHex05))>>)),
        Member(Str6b, JsonObject(<<Member(StrI, JsonNumber(11)),
                                   Member(StrX1, JsonString(StrHex06))>>))>>))>>)

CacheBinaryFrames == {CacheFrameA, CacheFrameB}
CacheTicks == {1, MinTimeBetweenDeviceTypeInfoRetrievalMs - 1}
CacheResponses == {RpcOk(TypeInfoServo), RpcOk(TypeInfoNoResp), RpcFail, RpcRaise}

CacheSetup == \E su \in {SystemUtilsReady, SystemUtilsNoHandler} : Setup(su)
CacheTick == \E d \in CacheTicks : Tick(d)
CacheDeliverBinary == \E f \in CacheBinaryFrames : DeliverBinary(f)
CacheDeliverJson == DeliverJson(CacheJsonAB)
CacheRpcResponse ==
    \E i \in 1..Len(rpcInFlight) : \E resp \in CacheResponses : RpcResponse(i, resp)

NextCache ==
    \/ CacheSetup
    \/ CacheTick
    \/ CacheDeliverBinary
    \/ CacheDeliverJson
    \/ CacheRpcResponse
    \/ RunRequestSettled
    \/ RunWaiterResolved
    \/ RunHandlerResumed

SpecCache == Init /\ [][NextCache]_vars

(***************************************************************************)
(* Spec: the device state store.  Binary and JSON frames of devices 1_6a   *)
(* and 1_6b arrive while the history cap is set, device-removed callbacks  *)
(* are registered and typeinfo requests are answered.                      *)
(***************************************************************************)
\* Status bytes: online, bus 1; the same with the pending-deletion bit.
StatusOnlineBus1 == 129
StatusPendingDeletionBus1 == 193

\* 0080 DB01 | 0008 81 0000006a 000b 05
FrameA == MsgTypePrefix \o <<219, 1>> \o MkRecord(StatusOnlineBus1, Addr6a, 11, <<5>>)
\* 0080 | 0009 81 0000006a 000b 06 07 | 0007 81 0000006b 000b
FrameAB ==
    MsgTypePrefix \o MkRecord(StatusOnlineBus1, Addr6a, 11, <<6, 7>>)
                  \o MkRecord(StatusOnlineBus1, Addr6b, 11, <<>>)
\* 0080 DBFF | 0008 81 0000006b 000b 08 | 0007 C1 0000006a 000b
FrameDeleteA ==
    MsgTypePrefix \o <<219, 255>> \o MkRecord(StatusOnlineBus1, Addr6b, 11, <<8>>)
                  \o MkRecord(StatusPendingDeletionBus1, Addr6a, 11, <<>>)
\* {"1":{"6a":{"_i":11,"x1":"090a"}}}
StrHex090a == <<"0", "9", "0", "a">>
JsonA ==
    JsonObject(<<Member(StrBus1, JsonObject(<<
        Member(Str6a, JsonObject(<<Member(StrI, JsonNumber(11)),
                                   Member(StrX1, JsonString(StrHex090a))>>))>>))>>)

StoreBinaryFrames == {FrameA, FrameAB, FrameDeleteA}
StoreResponses == {RpcOk(TypeInfoServo), RpcFail}
RemovedCallbackNames == {"cbA", "cbB"}

StoreSetup == Setup(SystemUtilsReady)
StoreSetMaxDataPointsToStore == \E n \in 1..MaxCap : SetMaxDataPointsToStore(n)
StoreAddDeviceRemovedCallback ==
    \E cb \in RemovedCallbackNames : AddDeviceRemovedCallback(cb)
StoreDeliverBinary == \E f \in StoreBinaryFrames : DeliverBinary(f)
StoreDeliverJson == DeliverJson(JsonA)
StoreRpcResponse ==
    \E i \in 1..Len(rpcInFlight) : \E resp \in StoreResponses : RpcResponse(i, resp)

Next ==
    \/ StoreSetup
    \/ StoreSetMaxDataPointsToStore
    \/ StoreAddDeviceRemovedCallback
    \/ StoreDeliverBinary
    \/ StoreDeliverJson
    \/ StoreRpcResponse
    \/ RunRequestSettled
    \/ RunWaiterResolved
    \/ RunHandlerResumed

Spec == Init /\ [][Next]_vars

(***************************************************************************)
(* SpecFrames: the record loop of handleClientMsgBinary on well-formed and *)
(* malformed frames.                                                       *)
(***************************************************************************)
\* 0080 | 0009 81 0000006a 000b 09 02 | 0014 81 0000006b 000b 04 : the
\* second record claims 20 bytes, 8 follow its length field.
FrameOverrun ==
    MsgTypePrefix \o MkRecord(StatusOnlineBus1, Addr6a, 11, <<9, 2>>)
                  \o <<0, 20, StatusOnlineBus1>> \o Addr6b \o <<0, 11, 4>>
\* 0080 | 0009 81 0000006a 000b 03 01 | 0007 81 00 00 : 5 bytes remain for
\* the second record.
FrameShort ==
    MsgTypePrefix \o MkRecord(StatusOnlineBus1, Addr6a, 11, <<3, 1>>)
                  \o <<0, 7, StatusOnlineBus1, 0, 0>>
\* 0080 DB02 | ... : topic 2 is devjson.
FrameOtherTopic ==
    MsgTypePrefix \o <<219, 2>> \o MkRecord(StatusOnlineBus1, Addr6a, 11, <<5>>)
\* 0080 D001 | ... : 0xD0 is not an envelope version.
FrameBadMagic ==
    MsgTypePrefix \o <<208, 1>> \o MkRecord(StatusOnlineBus1, Addr6a, 11, <<5>>)

FramesBinaryFrames ==
    {FrameA, FrameAB, FrameDeleteA, FrameOverrun, FrameShort, FrameOtherTopic,
     FrameBadMagic}

FramesResponses == {RpcOk(TypeInfoServo), RpcOk(TypeInfoWide), RpcFail}

FramesDeliverBinary == \E f \in FramesBinaryFrames : DeliverBinary(f)
FramesRpcResponse ==
    \E i \in 1..Len(rpcInFlight) : \E resp \in FramesResponses : RpcResponse(i, resp)

NextFrames ==
    \/ StoreSetup
    \/ FramesDeliverBinary
    \/ FramesRpcResponse
    \/ RunRequestSettled
    \/ RunWaiterResolved
    \/ RunHandlerResumed

SpecFrames == Init /\ [][NextFrames]_vars

(***************************************************************************)
(* SpecStats: updateDeviceStats and getDeviceStats as functions of a stats *)
(* entry, the sample count and the clock.  The entry of device 1_6a starts *)
(* empty with a window of 500 ms or of the manager's 5000 ms.              *)
(***************************************************************************)
StatsWindows == {500, StatsWindowMs}
StatsTicks == {400, StatsWindowMs + 1}
StatsSampleCounts == {0, 10}
StatsKeys == {getDeviceKey(StrBus1, Str6a), getDeviceKey(StrBus1, Str6b)}

InitStats ==
    /\ InitButStats
    /\ \E w \in StatsWindows :
          deviceStats = MapPut(EmptyMap, getDeviceKey(StrBus1, Str6a), createEmptyStats(w))

Unchanged_ButStats ==
    UNCHANGED <<devicesState, deviceLastUpdateTime, cachedDeviceTypeRecs,
                cachedDeviceTypePreviousAttemptTimes, pendingDeviceTypeRequests,
                rpcInFlight, tasks, microtasks, fetchRound, fetchLog, delivered,
                stream>>

\* updateDeviceStats(deviceKey, newSamples, Date.now()), as the handlers call it
\* once per record or attribute group.
UpdateDeviceStats(deviceKey, newSamples) ==
    /\ framesDelivered < MaxFrames
    /\ framesDelivered' = framesDelivered + 1
    /\ deviceStats' = updateDeviceStats(deviceStats, deviceKey, newSamples, now)
    /\ cbLog' = <<>>
    /\ Unchanged_ButStats
    /\ Unchanged_Config
    /\ UNCHANGED <<now, ticks>>

\* getDeviceStats(deviceKey); the copy it returns is logged.
GetDeviceStats(deviceKey) ==
    /\ deviceStats' = getDeviceStats(deviceStats, deviceKey).stats
    /\ cbLog' = <<[ev |-> "getDeviceStats", deviceKey |-> deviceKey,
                   arg |-> getDeviceStats(deviceStats, deviceKey).value]>>
    /\ Unchanged_ButStats
    /\ Unchanged_Config
    /\ UNCHANGED <<now, ticks, framesDelivered>>

StatsTick == \E d \in StatsTicks : Tick(d)
StatsUpdate ==
    \E n \in StatsSampleCounts : UpdateDeviceStats(getDeviceKey(StrBus1, Str6a), n)
StatsGet == \E k \in StatsKeys : GetDeviceStats(k)

NextStats ==
    \/ StatsTick
    \/ StatsUpdate
    \/ StatsGet

SpecStats == InitStats /\ [][NextStats]_vars

(***************************************************************************)
(* Properties of the device statistics (checked under SpecStats)           *)
(***************************************************************************)
\* The events of a log with time >= start.
EventsSince(events, start) == SelectSeq(events, LAMBDA e : e.timeMs >= start)

\* C6: after a stats update at time u, the window holds the logged events with
\* time >= u - windowMs, windowSamples is the sum of their sample counts, and
\* sampleRateHz is windowSamples * 1000 / max(1, u - time of the oldest of
\* them), or 0 when there is none; 10 samples at 0 ms and 10 samples at 400 ms
\* with a 500 ms window give windowSamples 20 and rate 50.
C6_StatsWindow ==
    \A k \in DOMAIN deviceStats :
        LET st == deviceStats[k]
            u == st.lastUpdateTimeMs
            inWindow == EventsSince(st.logged, u - st.windowMs)
        IN  u # NoTime =>
              /\ st.windowEvents = inWindow
              /\ st.windowSamples = SumSeq([i \in DOMAIN inWindow |-> inWindow[i].samples])
              /\ IF inWindow = <<>>
                 THEN st.sampleRateHz.num = 0
                 ELSE st.sampleRateHz.num * Max(1, u - inWindow[1].timeMs)
                         = st.windowSamples * 1000 * st.sampleRateHz.den
              /\ ( /\ st.windowMs = 500
                   /\ u = 400
                   /\ st.logged = <<[timeMs |-> 0, samples |-> 10],
                                    [timeMs |-> 400, samples |-> 10]>> )
                 => /\ st.windowSamples = 20
                    /\ st.sampleRateHz.num = 50 * st.sampleRateHz.den

\* The example: 10 samples at 0 ms, 10 at 400 ms, a 500 ms window.
C6_Witness ==
    \E k \in DOMAIN deviceStats :
        /\ deviceStats[k].windowMs = 500
        /\ deviceStats[k].lastUpdateTimeMs = 400
        /\ deviceStats[k].logged = <<[timeMs |-> 0, samples |-> 10],
                                     [timeMs |-> 400, samples |-> 10]>>
        /\ deviceStats[k].windowSamples = 20

\* C7 as the specification states it: once the last samples of a device are
\* older than the stats window, getDeviceStats reports windowSamples 0 and
\* sampleRateHz 0 for it.
C7_ExpiredWindowReportsZero ==
    \A k \in DOMAIN deviceStats :
        ( /\ deviceStats[k].lastSampleTimeMs # NoTime
          /\ now - deviceStats[k].lastSampleTimeMs > deviceStats[k].windowMs )
        => /\ getDeviceStats(deviceStats, k).value.windowSamples = 0
           /\ getDeviceStats(deviceStats, k).value.sampleRateHz.num = 0

\* The window of 5000 ms expired 1 ms ago and no update came: getDeviceStats
\* still reports the 20 samples and the 50 Hz of the last update.
C7_StaleReport ==
    \E k \in DOMAIN deviceStats :
        /\ deviceStats[k].windowMs = StatsWindowMs
        /\ deviceStats[k].lastSampleTimeMs = 400
        /\ now = 400 + StatsWindowMs + 1
        /\ getDeviceStats(deviceStats, k).value.windowSamples = 20
        /\ getDeviceStats(deviceStats, k).value.sampleRateHz = Rate(20000, 400)

(***************************************************************************)
(* Properties of the device state store (checked under Spec)               *)
(***************************************************************************)
\* C2: while maxDatapointsToStore is not changed after the first frame, every
\* attribute history of every device holds at most maxDatapointsToStore values,
\* and they are the most recent of the samples appended to it: when the
\* history is full the oldest entry is the one that goes.
C2_HistoryCap ==
    ~capChanged =>
        \A k \in DOMAIN devicesState :
            \A n \in DOMAIN devicesState[k].deviceAttributes :
                LET attr == devicesState[k].deviceAttributes[n]
                IN  /\ Len(attr.values) <= maxDatapointsToStore
                    /\ attr.values = LastN(attr.appended, maxDatapointsToStore)

\* A full history has lost its oldest samples; binary and JSON frames both
\* fed it.
C2_Witness ==
    /\ ~capChanged
    /\ \E k \in DOMAIN devicesState :
          \E n \in DOMAIN devicesState[k].deviceAttributes :
              LET attr == devicesState[k].deviceAttributes[n]
              IN  /\ Len(attr.values) = maxDatapointsToStore
                  /\ Len(attr.appended) > maxDatapointsToStore
                  /\ \E i, j \in DOMAIN attr.appended :
                        attr.appended[i] = 10 /\ attr.appended[j] = 7

\* The records task t visits in this step, as indexes into its visited list.
NewVisits(t) ==
    IF t \in DOMAIN tasks
    THEN (Len(tasks[t].visited) + 1)..Len(tasks'[t].visited)
    ELSE 1..Len(tasks'[t].visited)

KeyAt(frame, pos) == RecordHeader(frame, pos).deviceKey

\* The device-removed callbacks this step made for key k, in order.
RemovedLog(k) ==
    SelectSeq(cbLog', LAMBDA e : e.ev = "deviceRemoved" /\ e.deviceKey = k)

\* C3: when a binary record with bit6 of its status byte set is handled for a
\* device that is in the state map (and it is the only record for that device
\* handled in the step), the device is afterwards in none of the state map,
\* the stats map and the last-update table, and every registered
\* device-removed callback has been invoked exactly once for it, with a device
\* state whose onlineState is PendingDeletion.
C3_PendingDeletion ==
    [][\A t \in DOMAIN tasks' :
        tasks'[t].kind = "bin" =>
            \A i \in NewVisits(t) :
                LET frame == tasks'[t].frame
                    pos == tasks'[t].visited[i]
                    k == KeyAt(frame, pos)
                IN  ( /\ Bit6(ByteAt(frame, pos + RecordLenLen))
                      /\ k \in DOMAIN devicesState
                      /\ \A j \in NewVisits(t) :
                            j # i => KeyAt(frame, tasks'[t].visited[j]) # k )
                    => /\ k \notin DOMAIN devicesState'
                       /\ k \notin DOMAIN deviceStats'
                       /\ k \notin DOMAIN deviceLastUpdateTime'
                       /\ Len(RemovedLog(k)) = Len(deviceRemovedCallbacks)
                       /\ \A c \in DOMAIN deviceRemovedCallbacks :
                             /\ RemovedLog(k)[c].cb = deviceRemovedCallbacks[c]
                             /\ RemovedLog(k)[c].arg.onlineState = PendingDeletion
      ]_vars

\* Two callbacks were told of the removal of a device that had samples.
C3_Witness ==
    /\ Len(deviceRemovedCallbacks) = 2
    /\ Len(cbLog) = 2
    /\ \A c \in DOMAIN cbLog :
          /\ cbLog[c].ev = "deviceRemoved"
          /\ cbLog[c].deviceKey = getDeviceKey(StrBus1, Str6a)
          /\ cbLog[c].arg.onlineState = PendingDeletion
          /\ StrX1 \in DOMAIN cbLog[c].arg.deviceAttributes
    /\ getDeviceKey(StrBus1, Str6a) \notin DOMAIN devicesState

(***************************************************************************)
(* Properties of the record loop (checked under SpecFrames)                *)
(***************************************************************************)
\* The record at pos does not fit: fewer than 9 bytes remain, or its recordLen
\* exceeds what follows its length field.
BadRecordAt(frame, pos) ==
    /\ pos < Len(frame)
    /\ \/ Len(frame) - pos < 9
       \/ frame[pos + 1] * 256 + frame[pos + 2] > Len(frame) - pos - 2

\* Task t ends in this step.
EndsNow(t) ==
    /\ tasks'[t].pc = "done"
    /\ t \in DOMAIN tasks => tasks[t].pc # "done"

\* What the step of task t would have made of its frame cut off at pos.
RunOnTruncated(t, pos) ==
    LET cut == SubSeq(tasks'[t].frame, 1, pos)
    IN  IF t \in DOMAIN tasks
        THEN BinResume(NoteDelivered([Popped EXCEPT !.tasks[t].frame = cut], t), t)
        ELSE handleClientMsgBinary(
                [State EXCEPT !.tasks = Append(@, NewTask("bin", cut))], t)

\* The program's maps in state s.
StoreOf(s) ==
    <<s.devicesState, s.deviceStats, s.deviceLastUpdateTime, s.cachedDeviceTypeRecs,
      s.cachedDeviceTypePreviousAttemptTimes, s.pendingDeviceTypeRequests,
      s.rpcInFlight, s.microtasks, s.cbLog>>

\* C4: a record that does not fit is never handled; when the record loop comes
\* to one, handleClientMsgBinary returns (it does not raise), and what it
\* leaves is what the frame cut off before that record leaves, short of the
\* closing sweep and callback dispatch, which the early return skips: the
\* earlier records' devices and samples are there, and neither the bad record
\* nor the bytes after it have changed anything.
C4_OverrunStopsParsing ==
    [][\A t \in DOMAIN tasks' :
        tasks'[t].kind = "bin" =>
            /\ \A i \in DOMAIN tasks'[t].visited :
                  ~BadRecordAt(tasks'[t].frame, tasks'[t].visited[i])
            /\ ( /\ EndsNow(t)
                 /\ tasks'[t].msgPos >= MsgTypeLen
                 /\ BadRecordAt(tasks'[t].frame, tasks'[t].msgPos) )
               => /\ tasks'[t].exit = "aborted"
                  /\ LET ref == RunOnTruncated(t, tasks'[t].msgPos)
                         post == [State' EXCEPT !.cbLog = cbLog']
                     IN  /\ ref.tasks[t].exit = "completed"
                         /\ ref.tasks[t].visited = tasks'[t].visited
                         /\ StoreOf(HandlerTail(post)) = StoreOf(ref)
      ]_vars

\* A frame was abandoned at its second record; the first record's device and
\* sample are in the state map.
C4_Witness ==
    \E t \in DOMAIN tasks :
        /\ tasks[t].exit = "aborted"
        /\ tasks[t].frame = FrameOverrun
        /\ Len(tasks[t].visited) = 1
        /\ BadRecordAt(tasks[t].frame, tasks[t].msgPos)
        /\ getDeviceKey(StrBus1, Str6a) \in DOMAIN devicesState
        /\ StrX1 \in DOMAIN devicesState[getDeviceKey(StrBus1, Str6a)].deviceAttributes
        /\ \E i \in DOMAIN devicesState[getDeviceKey(StrBus1, Str6a)]
                              .deviceAttributes[StrX1].appended :
              devicesState[getDeviceKey(StrBus1, Str6a)]
                  .deviceAttributes[StrX1].appended[i] = 9

\* The records of a frame from pos on are well formed: each has recordLen >= 7
\* and they fill the frame exactly.
RECURSIVE WellFormedFrom(_, _)
WellFormedFrom(frame, pos) ==
    \/ pos = Len(frame)
    \/ /\ Len(frame) - pos >= 9
       /\ frame[pos + 1] * 256 + frame[pos + 2] >= 7
       /\ pos + 2 + frame[pos + 1] * 256 + frame[pos + 2] <= Len(frame)
       /\ WellFormedFrom(frame, pos + 2 + frame[pos + 1] * 256 + frame[pos + 2])

\* Where the records of a frame start: after the prefix, and after the envelope
\* when the byte that follows the prefix has high nibble 0xD.
FirstRecordPos(frame) ==
    IF Len(frame) >= 4 /\ frame[3] \div 16 = 13 THEN 4 ELSE 2

\* A well-formed devbin frame: the prefix, an envelope (if any) of version
\* 0xDB-0xDF whose topic index is 0xFF or names devbin, and well-formed records.
WellFormedDevbin(frame) ==
    /\ Len(frame) >= 2
    /\ FirstRecordPos(frame) = 4 =>
          /\ frame[3] \in 219..223
          /\ frame[4] = 255 \/ (frame[4] \in DOMAIN TopicTable /\ TopicTable[frame[4]] = StrDevbin)
    /\ WellFormedFrom(frame, FirstRecordPos(frame))

\* The record starts of a well-formed frame, in order.
RECURSIVE RecordStarts(_, _)
RecordStarts(frame, pos) ==
    IF pos >= Len(frame) THEN <<>>
    ELSE <<pos>> \o RecordStarts(frame, pos + 2 + frame[pos + 1] * 256 + frame[pos + 2])

\* C5: on a well-formed devbin frame the records handled so far are the first
\* records of the frame, each once and in order, the cursor standing on the
\* record whose schema is awaited; the handler neither returns early nor
\* raises, and when it has returned every record has been handled and the
\* cursor equals the frame length, whatever the typeinfo requests answered.
C5_CursorAdvance ==
    \A t \in DOMAIN tasks :
        (tasks[t].kind = "bin" /\ WellFormedDevbin(tasks[t].frame)) =>
            LET starts == RecordStarts(tasks[t].frame, FirstRecordPos(tasks[t].frame))
                visited == tasks[t].visited
            IN  /\ Len(visited) <= Len(starts)
                /\ \A i \in DOMAIN visited : visited[i] = starts[i]
                /\ tasks[t].pc # "done" => tasks[t].msgPos = visited[Len(visited)]
                /\ tasks[t].pc = "done" =>
                      /\ tasks[t].exit = "completed"
                      /\ visited = starts
                      /\ tasks[t].msgPos = Len(tasks[t].frame)

\* A two-record frame was handled to its end although the schema of its
\* devices did not resolve.
C5_Witness ==
    \E t \in DOMAIN tasks :
        /\ tasks[t].frame = FrameAB
        /\ tasks[t].pc = "done"
        /\ tasks[t].visited = <<2, 13>>
        /\ tasks[t].msgPos = Len(FrameAB)
        /\ tasks[t].result = Undefined
        /\ devicesState = EmptyMap

(***************************************************************************)
(* Properties of the device type cache (checked under SpecCache)           *)
(***************************************************************************)
TypeKeys == DOMAIN fetchRound

\* The tasks that make a getDeviceTypeInfo call for key k in this step.
CallsMade(k) ==
    {t \in DOMAIN tasks' :
        /\ tasks'[t].awaitType = k
        /\ (t \notin DOMAIN tasks \/ tasks'[t].calls > tasks[t].calls)}

FetchingTasks(k) ==
    {t \in DOMAIN tasks : tasks[t].pc = "fetching" /\ tasks[t].awaitType = k}

RpcsFor(rpcs, k) == Cardinality({i \in DOMAIN rpcs : rpcs[i].deviceType = k})

AllSame(seq) == \A i, j \in DOMAIN seq : seq[i] = seq[j]

\* What holds of every state while fetches are under way: at most one call per
\* key is inside executeDeviceTypeInfoRequest, at most one typeinfo RPC per key
\* is in flight, every queued waiter belongs to the fetch that is pending, and
\* all the callers of one fetch received the same result.
SharedFetch ==
    /\ \A k \in TypeKeys :
          /\ Cardinality(FetchingTasks(k)) <= 1
          /\ RpcsFor(rpcInFlight, k) <= 1
          /\ \A i \in DOMAIN rpcInFlight :
                rpcInFlight[i].deviceType = k => rpcInFlight[i].task \in FetchingTasks(k)
    /\ \A k \in DOMAIN pendingDeviceTypeRequests :
          /\ FetchingTasks(k) = {pendingDeviceTypeRequests[k].promise}
          /\ \A i \in DOMAIN pendingDeviceTypeRequests[k].waitingQueue :
                LET w == pendingDeviceTypeRequests[k].waitingQueue[i]
                IN  tasks[w].how = "queue" /\ tasks[w].round = fetchRound[k]
    /\ \A key \in DOMAIN delivered : AllSame(delivered[key])

\* What the getDeviceTypeInfo calls of one synchronous run do for an uncached
\* key: with no fetch pending and no rate limit, the first of them starts
\* exactly one fetch, which sends exactly one typeinfo RPC when a message
\* handler is set, and the others join it; calls made while a fetch is pending
\* start nothing, send nothing and join that fetch.
OneFetchPerBatch ==
    \A k \in {tasks'[t].awaitType : t \in DOMAIN tasks'} \ {<<>>} :
        (CallsMade(k) # {} /\ k \notin DOMAIN cachedDeviceTypeRecs) =>
            IF k \in DOMAIN pendingDeviceTypeRequests
            THEN /\ fetchRound'[k] = fetchRound[k]
                 /\ rpcInFlight' = rpcInFlight
                 /\ \A t \in CallsMade(k) :
                       tasks'[t].how = "queue" /\ tasks'[t].round = fetchRound[k]
            ELSE IF k \in DOMAIN cachedDeviceTypePreviousAttemptTimes
                    /\ now - cachedDeviceTypePreviousAttemptTimes[k]
                          < MinTimeBetweenDeviceTypeInfoRetrievalMs
            THEN TRUE
            ELSE /\ fetchRound'[k] = Round(State, k) + 1
                 /\ RpcsFor(rpcInFlight', k)
                       = RpcsFor(rpcInFlight, k) + (IF HasMsgHandler(State) THEN 1 ELSE 0)
                 /\ Cardinality({t \in CallsMade(k) : tasks'[t].how = "fetch"}) = 1
                 /\ \A t \in CallsMade(k) :
                       /\ tasks'[t].how \in {"fetch", "queue"}
                       /\ tasks'[t].round = fetchRound'[k]

FetchFailed(k) ==
    /\ k \in DOMAIN cachedDeviceTypePreviousAttemptTimes
    /\ k \notin DOMAIN cachedDeviceTypeRecs
    /\ k \notin DOMAIN pendingDeviceTypeRequests

C9_CachePermanent ==
    [][\A k \in DOMAIN cachedDeviceTypeRecs :
        /\ k \in DOMAIN cachedDeviceTypeRecs'
        /\ cachedDeviceTypeRecs'[k] = cachedDeviceTypeRecs[k]
        /\ \A t \in CallsMade(k) :
              /\ tasks'[t].pc = "resuming"
              /\ tasks'[t].settle = "fulfilled"
              /\ tasks'[t].result = cachedDeviceTypeRecs[k]
        /\ CallsMade(k) # {} =>
              /\ fetchRound'[k] = fetchRound[k]
              /\ rpcInFlight' = rpcInFlight
              /\ cachedDeviceTypePreviousAttemptTimes' = cachedDeviceTypePreviousAttemptTimes
      ]_vars

\* A call for a cached key was answered from the cache after the retry interval.
C9_Witness ==
    \E t \in DOMAIN tasks :
        /\ tasks[t].how = "cache"
        /\ tasks[t].pc = "resuming"
        /\ tasks[t].result = TypeInfoServo
        /\ now - cachedDeviceTypePreviousAttemptTimes[tasks[t].awaitType]
              >= MinTimeBetweenDeviceTypeInfoRetrievalMs

\* C10: when a fetch fails (the RPC raises, its result is not ok, or there is no
\* message handler), its initiator and every queued waiter receive undefined
\* through a fulfilled promise, no handler sees a rejection or an error, and the
\* key has no cached schema unless some fetch for it succeeded.
C10_FailureIsUndefined ==
    /\ \A key \in DOMAIN fetchLog :
          fetchLog[key] # "ok" =>
              /\ key \in DOMAIN delivered =>
                    \A i \in DOMAIN delivered[key] :
                        delivered[key][i] = [settle |-> "fulfilled", value |-> Undefined]
              /\ (\A other \in DOMAIN fetchLog :
                      other[1] = key[1] => fetchLog[other] # "ok")
                    => key[1] \notin DOMAIN cachedDeviceTypeRecs
    /\ \A t \in DOMAIN tasks :
          /\ tasks[t].settle # "rejected"
          /\ tasks[t].exit # "threw"

\* The RPC raised: the
\* initiator and a waiter of that fetch both received their result.
C10_Witness ==
    \E key \in DOMAIN fetchLog :
        /\ fetchLog[key] = "raise"
        /\ key \in DOMAIN delivered
        /\ Len(delivered[key]) >= 2

(***************************************************************************)
(* Properties of device creation and update (checked under Spec)           *)
(***************************************************************************)
\* s is a prefix of t.
IsPrefix(s, t) == Len(s) <= Len(t) /\ SubSeq(t, 1, Len(s)) = s

Key6a == getDeviceKey(StrBus1, Str6a)

\* C11: a record for a key that is in the device-state map updates the entry
\* that is there: every attribute keeps the samples appended to it so far, the
\* timeline keeps its last report time, and deviceIsNew is not set again; this
\* holds also when the record belongs to a frame that was suspended on the
\* schema fetch while another frame created the entry.
C11_UpdateKeepsEntry ==
    [][\A k \in (DOMAIN devicesState) \cap (DOMAIN devicesState') :
        LET old == devicesState[k]
            new == devicesState'[k]
        IN  /\ new.deviceIsNew => old.deviceIsNew
            /\ new.deviceTimeline.lastReportTimestampUs
                  >= old.deviceTimeline.lastReportTimestampUs
            /\ \A n \in DOMAIN old.deviceAttributes :
                  /\ n \in DOMAIN new.deviceAttributes
                  /\ IsPrefix(old.deviceAttributes[n].appended,
                              new.deviceAttributes[n].appended)
      ]_vars

\* Two binary frames whose first record is for the unknown device 1_6a were
\* suspended on the same schema fetch; both have finished and the one entry of
\* 1_6a holds the samples of both.
C11_Witness ==
    /\ Key6a \in DOMAIN devicesState
    /\ StrX1 \in DOMAIN devicesState[Key6a].deviceAttributes
    /\ Len(devicesState[Key6a].deviceAttributes[StrX1].appended) >= 3
    /\ \E t1, t2 \in DOMAIN tasks :
          /\ t1 # t2
          /\ tasks[t1].kind = "bin" /\ tasks[t2].kind = "bin"
          /\ tasks[t1].pc = "done" /\ tasks[t2].pc = "done"
          /\ tasks[t1].calls = 1 /\ tasks[t2].calls = 1
          /\ tasks[t1].how = "fetch" /\ tasks[t2].how = "queue"
          /\ tasks[t1].round = tasks[t2].round
          /\ tasks[t1].result = TypeInfoServo /\ tasks[t2].result = TypeInfoServo

(***************************************************************************)
(* SpecNotify: change notification.  The four kinds of callback are        *)
(* registered and the history cap is set before the first frame; then      *)
(* binary and JSON frames of devices 1_6a and 1_6b arrive, one of them     *)
(* with a record that overruns the frame.                                  *)
(***************************************************************************)
NotifyResponses == {RpcOk(TypeInfoServo), RpcFail}
NotifyBinaryFrames == {FrameA, FrameAB, FrameOverrun}

NotifyAddNewDeviceCallback ==
    framesDelivered = 0 /\ AddNewDeviceCallback("onNewDevice")
NotifyAddNewAttributeCallback ==
    framesDelivered = 0 /\ newDeviceCallbacks # <<>>
        /\ AddNewAttributeCallback("onNewAttribute")
NotifyAddAttributeDataCallback ==
    framesDelivered = 0 /\ newDeviceAttributeCallbacks # <<>>
        /\ AddAttributeDataCallback("onNewData")
NotifyAddDecodedDataCallback ==
    framesDelivered = 0 /\ newAttributeDataCallbacks # <<>>
        /\ AddDecodedDataCallback("onDecodedData")
NotifySetMaxDataPointsToStore ==
    framesDelivered = 0 /\ maxDatapointsToStore = DefaultMaxDatapointsToStore
        /\ \E n \in 1..MaxCap : SetMaxDataPointsToStore(n)
NotifyDeliverBinary == \E f \in NotifyBinaryFrames : DeliverBinary(f)
NotifyDeliverJson == DeliverJson(JsonA)
NotifyRpcResponse ==
    \E i \in 1..Len(rpcInFlight) : \E resp \in NotifyResponses : RpcResponse(i, resp)

NextNotify ==
    \/ StoreSetup
    \/ NotifyAddNewDeviceCallback
    \/ NotifyAddNewAttributeCallback
    \/ NotifyAddAttributeDataCallback
    \/ NotifyAddDecodedDataCallback
    \/ NotifySetMaxDataPointsToStore
    \/ NotifyDeliverBinary
    \/ NotifyDeliverJson
    \/ NotifyRpcResponse
    \/ RunRequestSettled
    \/ RunWaiterResolved
    \/ RunHandlerResumed

SpecNotify == Init /\ [][NextNotify]_vars

(***************************************************************************)
(* Properties of change notification (checked under SpecNotify)            *)
(***************************************************************************)
\* The device keys of the records a handler has visited: the records of a
\* binary frame, the one device entry of a JSON device closure.
TaskKeys(task) ==
    IF task.kind = "bin"
    THEN {KeyAt(task.frame, task.visited[i]) : i \in DOMAIN task.visited}
    ELSE {getDeviceKey(task.frame.busName, task.frame.devAddr)}

\* Handler t returns in this step.
JustFinished(t) ==
    /\ tasks'[t].pc = "done"
    /\ t \in DOMAIN tasks => tasks[t].pc # "done"

\* No notification is owed for the device: deviceIsNew, and newAttribute and
\* newData of every attribute, are clear.
FlagsClear(deviceState) ==
    /\ ~deviceState.deviceIsNew
    /\ \A n \in DOMAIN deviceState.deviceAttributes :
          /\ ~deviceState.deviceAttributes[n].newAttribute
          /\ ~deviceState.deviceAttributes[n].newData

\* No callback was invoked twice with the same event.
NoCallbackTwice(log) == \A i, j \in DOMAIN log : log[i] = log[j] => i = j

\* C12 as the specification states it: when the handling of a frame finishes,
\* the devices and attributes its records created or flagged have had their
\* callbacks (each once) and their flags are clear.  Every JSON frame of
\* SpecNotify has one device entry, so the frame's handling has finished when
\* that entry's closure returns.
C12_FlagsClearWhenFrameFinishes ==
    [][\A t \in DOMAIN tasks' :
        JustFinished(t) =>
            /\ NoCallbackTwice(cbLog')
            /\ \A k \in TaskKeys(tasks'[t]) \cap DOMAIN devicesState' :
                  FlagsClear(devicesState'[k])
      ]_vars

\* Every handler has returned, a new-device callback is registered, and the
\* device a JSON frame created is still flagged new with new data.
C12_Witness ==
    /\ microtasks = <<>>
    /\ rpcInFlight = <<>>
    /\ newDeviceCallbacks # <<>>
    /\ newAttributeDataCallbacks # <<>>
    /\ \A t \in DOMAIN tasks : tasks[t].pc = "done"
    /\ \E t \in DOMAIN tasks : tasks[t].kind = "json"
    /\ Key6a \in DOMAIN devicesState
    /\ devicesState[Key6a].deviceIsNew
    /\ \E n \in DOMAIN devicesState[Key6a].deviceAttributes :
          devicesState[Key6a].deviceAttributes[n].newData

\* The decoded-data events of this step for device k, in order.
DecodedLog(k) ==
    SelectSeq(cbLog', LAMBDA e : e.ev = "decodedData" /\ e.deviceKey = k)

\* The values of attribute n carried by a sequence of decoded-data events.
RECURSIVE EventValues(_, _)
EventValues(events, n) ==
    IF events = <<>> THEN <<>>
    ELSE (IF n \in DOMAIN Head(events).arg.attrValues
          THEN Head(events).arg.attrValues[n] ELSE <<>>)
         \o EventValues(Tail(events), n)

\* The timestamps carried by a sequence of decoded-data events.
RECURSIVE EventTimestamps(_)
EventTimestamps(events) ==
    IF events = <<>> THEN <<>>
    ELSE Head(events).arg.timestampsUs \o EventTimestamps(Tail(events))

\* The samples this step appended to attribute n of device k.
AppendedNow(k, n) ==
    IF k \in DOMAIN devicesState /\ n \in DOMAIN devicesState[k].deviceAttributes
    THEN DropN(devicesState'[k].deviceAttributes[n].appended,
               Len(devicesState[k].deviceAttributes[n].appended))
    ELSE devicesState'[k].deviceAttributes[n].appended

\* The timestamps this step appended to the timeline of device k.
TimestampsNow(k) ==
    LET from == IF k \in DOMAIN devicesState
                THEN devicesState[k].deviceTimeline.lastReportTimestampUs ELSE 0
        to == devicesState'[k].deviceTimeline.lastReportTimestampUs
    IN  [i \in 1..(to - from) |-> from + i]

\* C14 as the specification states it: with one decoded-data callback
\* registered, the events a synchronous run emits for a device carry, batch
\* after batch, exactly the samples and the timestamps the run appended to the
\* device, whatever the length of the history before.
C14_DecodedDataCarriesAppended ==
    [][Len(decodedDataCallbacks) = 1 =>
        \A k \in DOMAIN devicesState' :
            /\ EventTimestamps(DecodedLog(k)) = TimestampsNow(k)
            /\ \A n \in DOMAIN devicesState'[k].deviceAttributes :
                  EventValues(DecodedLog(k), n) = AppendedNow(k, n)
      ]_vars

\* With a cap of 1, frame 0080 DB01 | 0008 81 0000006a 000b 05 was handled
\* twice; the second time the sample was appended to the full history, the
\* new-data callback was invoked and no decoded-data event was emitted.
C14_Witness ==
    /\ maxDatapointsToStore = 1
    /\ Len(decodedDataCallbacks) = 1
    /\ Len(tasks) = 2
    /\ \A t \in DOMAIN tasks :
          tasks[t].kind = "bin" /\ tasks[t].frame = FrameA /\ tasks[t].exit = "completed"
    /\ Key6a \in DOMAIN devicesState
    /\ StrX1 \in DOMAIN devicesState[Key6a].deviceAttributes
    /\ devicesState[Key6a].deviceAttributes[StrX1].appended = <<5, 5>>
    /\ \E i \in DOMAIN cbLog : cbLog[i].ev = "newData" /\ cbLog[i].deviceKey = Key6a
    /\ \A i \in DOMAIN cbLog : cbLog[i].ev # "decodedData"

(***************************************************************************)
(* SpecLife: the life of a device across frames.  Binary and JSON frames   *)
(* of devices 1_6a and 1_6b arrive while time passes beyond the staleness  *)
(* timeout; one frame ends in a truncated record, one deletes 1_6a and     *)
(* then carries a further record for it.                                   *)
(***************************************************************************)
\* 0080 | 0008 81 0000006b 000b 04 | 0007 81 : 1 byte remains for the second record.
FrameTruncatedB ==
    MsgTypePrefix \o MkRecord(StatusOnlineBus1, Addr6b, 11, <<4>>)
                  \o <<0, 7, StatusOnlineBus1>>
\* 0080 DBFF | 0007 C1 0000006a 000b | 0008 81 0000006a 000b 03
FrameDeleteThenA ==
    MsgTypePrefix \o <<219, 255>>
                  \o MkRecord(StatusPendingDeletionBus1, Addr6a, 11, <<>>)
                  \o MkRecord(StatusOnlineBus1, Addr6a, 11, <<3>>)

\* 0080 DBFF | 0008 81 0000006b 000c 06 : device 1_6b reports type 12.
FrameB12 == MsgTypePrefix \o <<219, 255>> \o MkRecord(StatusOnlineBus1, Addr6b, 12, <<6>>)

LifeBinaryFrames == {FrameA, FrameB12, FrameTruncatedB, FrameDeleteThenA}
LifeTicks == {RemoveDevicesTimeMs + 1}

LifeTick == \E d \in LifeTicks : Tick(d)
LifeDeliverBinary == \E f \in LifeBinaryFrames : DeliverBinary(f)
LifeDeliverJson == DeliverJson(JsonA)
LifeRpcResponse == RpcResponse(1, RpcOk(TypeInfoServo))

NextLife ==
    \/ StoreSetup
    \/ LifeTick
    \/ LifeDeliverBinary
    \/ LifeDeliverJson
    \/ LifeRpcResponse
    \/ RunRequestSettled
    \/ RunWaiterResolved
    \/ RunHandlerResumed

SpecLife == Init /\ [][NextLife]_vars

(***************************************************************************)
(* Properties of the life of a device (checked under SpecLife)             *)
(***************************************************************************)
\* A frame handler returns in this step: handleClientMsgBinary on any of its
\* exits, or handleClientMsgJson, which returns in the step it is called in.
HandlerReturns ==
    \/ \E t \in DOMAIN tasks' : tasks'[t].kind = "bin" /\ JustFinished(t)
    \/ /\ framesDelivered' = framesDelivered + 1
       /\ \A t \in (DOMAIN tasks') \ (DOMAIN tasks) : tasks'[t].kind = "json"

\* The last record for device k is older than the staleness timeout.
Stale(lastUpdateTime, k, nowTime) ==
    /\ k \in DOMAIN lastUpdateTime
    /\ nowTime - lastUpdateTime[k] > RemoveDevicesTimeMs

\* C13 as the specification states it: when the handling of a frame has
\* finished, no device whose last record is older than the staleness timeout
\* is left in the device-state map, nor in the stats map.
C13_NoStaleDeviceAfterFrame ==
    [][HandlerReturns =>
        \A k \in (DOMAIN devicesState') \cup (DOMAIN deviceStats') :
            ~Stale(deviceLastUpdateTime', k, now')
      ]_vars

\* Device 1_6a was created by a first frame; more than the timeout later a
\* second frame with a record for 1_6b arrived and was aborted at its truncated
\* second record: 1_6a is still in the state map and in the stats map.
Key6b == getDeviceKey(StrBus1, Str6b)

C13_Witness ==
    /\ Len(tasks) = 2
    /\ tasks[1].kind = "bin" /\ tasks[2].kind = "bin"
    /\ tasks[1].frame = FrameA /\ tasks[1].exit = "completed"
    /\ tasks[2].frame = FrameTruncatedB /\ tasks[2].exit = "aborted"
    /\ Key6b \in DOMAIN deviceLastUpdateTime
    /\ deviceLastUpdateTime[Key6b] = now
    /\ Key6a \in DOMAIN devicesState
    /\ Key6a \in DOMAIN deviceStats
    /\ Stale(deviceLastUpdateTime, Key6a, now)

\* Handler t runs in this step: it is started, or it continues after its await.
Runs(t) ==
    \/ t \notin DOMAIN tasks
    \/ tasks[t].pc = "resuming" /\ tasks'[t].pc # "resuming"

\* C15 as the specification states it: a frame's handler changes the device
\* states only when the handlers of all earlier frames have returned, also
\* when an earlier frame is suspended on a schema fetch.  (Every JSON frame of
\* SpecLife has one device entry, so handlers started earlier belong to
\* earlier frames.)
C15_FramesAtomic ==
    [][devicesState' # devicesState =>
        /\ framesDelivered' = framesDelivered + 1 =>
              \A t0 \in DOMAIN tasks : tasks[t0].pc = "done"
        /\ \A t \in DOMAIN tasks :
              Runs(t) => \A t0 \in 1..(t - 1) : tasks[t0].pc = "done"
      ]_vars

\* The frame of 1_6b is suspended on the fetch of type 12, its request
\* unanswered, and a later frame of the known device 1_6a has been handled to
\* its end and has appended its sample.
C15_Witness ==
    /\ Len(tasks) = 3
    /\ \A t \in DOMAIN tasks : tasks[t].kind = "bin"
    /\ tasks[1].frame = FrameA /\ tasks[1].exit = "completed"
    /\ tasks[2].frame = FrameB12 /\ tasks[2].pc = "fetching"
    /\ Len(rpcInFlight) = 1
    /\ tasks[3].frame = FrameA /\ tasks[3].exit = "completed"
    /\ Key6a \in DOMAIN devicesState
    /\ devicesState[Key6a].deviceAttributes[StrX1].appended = <<5, 5>>

\* Nothing is created for key k and nothing is appended to it in this step.
NoGrowth(k) ==
    k \in DOMAIN devicesState' =>
        /\ k \in DOMAIN devicesState
        /\ \A n \in DOMAIN devicesState'[k].deviceAttributes :
              /\ n \in DOMAIN devicesState[k].deviceAttributes
              /\ devicesState'[k].deviceAttributes[n].appended
                    = devicesState[k].deviceAttributes[n].appended

\* C16 as the specification states it: once a binary frame's handler has
\* processed a pending-deletion record for key K, the later records of that
\* frame (those it handles when it continues after an await) create no
\* DeviceState for K and append no sample to K.
C16_NoRecordAfterDeletion ==
    [][\A t \in DOMAIN tasks :
        (tasks[t].kind = "bin" /\ Runs(t)) =>
            \A i \in DOMAIN tasks[t].visited :
                ( /\ tasks[t].visited[i] < tasks[t].msgPos
                  /\ RecordHeader(tasks[t].frame, tasks[t].visited[i]).isPendingDeletion )
                => NoGrowth(KeyAt(tasks[t].frame, tasks[t].visited[i]))
      ]_vars

\* The frame that deletes 1_6a and then carries a record for it is the only
\* frame handled: 1_6a is in the state map again, with the record's sample.
C16_Witness ==
    /\ Len(tasks) = 1
    /\ tasks[1].kind = "bin"
    /\ tasks[1].frame = FrameDeleteThenA
    /\ tasks[1].exit = "completed"
    /\ Key6a \in DOMAIN devicesState
    /\ StrX1 \in DOMAIN devicesState[Key6a].deviceAttributes
    /\ devicesState[Key6a].deviceAttributes[StrX1].appended = <<3>>

(***************************************************************************)
(* The frame classifier (inspectPublishFrame of RaftPublish.ts).  A field  *)
(* the returned object does not carry is Undefined; a number, a string or  *)
(* a boolean it carries is a tagged record.                                *)
(***************************************************************************)
RAFT_PUBLISH_PREFIX_LEN == 2
DEVBIN_MAGIC_MIN == 219
DEVBIN_MAGIC_MAX == 223
DEVBIN_VERSION_BASE == 218
\* 0x7B, the byte of "{"
OpenBraceByte == 123

JsonBoolean(b) == [ty |-> "boolean", b |-> b]

\* The printable ASCII characters, from code 32 to code 126 (code 96, the
\* grave accent, is written out by name).
AsciiChars ==
    <<" ", "!", "\"", "#", "$", "%", "&", "'", "(", ")", "*", "+", ",", "-", ".", "/",
      "0", "1", "2", "3", "4", "5", "6", "7", "8", "9", ":", ";", "<", "=", ">", "?",
      "@", "A", "B", "C", "D", "E", "F", "G", "H", "I", "J", "K", "L", "M", "N", "O",
      "P", "Q", "R", "S", "T", "U", "V", "W", "X", "Y", "Z", "[", "\\", "]", "^", "_",
      "grave", "a", "b", "c", "d", "e", "f", "g", "h", "i", "j", "k", "l", "m", "n", "o",
      "p", "q", "r", "s", "t", "u", "v", "w", "x", "y", "z", "{", "|", "}", "~">>

\* new TextDecoder("utf-8").decode(bytes): a byte that is not printable ASCII
\* is shown as the replacement character.
Utf8Decode(bytes) ==
    [i \in DOMAIN bytes |->
        IF bytes[i] >= 32 /\ bytes[i] <= 126 THEN AsciiChars[bytes[i] - 31] ELSE "?"]

\* The UTF-8 bytes of a text of printable ASCII characters.
Utf8Encode(chars) ==
    [i \in DOMAIN chars |-> 31 + CHOOSE c \in 1..95 : AsciiChars[c] = chars[i]]

IsDigit(c) == HexDigitValue(c) >= 0 /\ HexDigitValue(c) <= 9

\* The position of the first character from pos on that ends a string
\* (a quote) or a number (a non-digit), or Len(chars) + 1.
RECURSIVE ScanTo(_, _, _)
ScanTo(chars, pos, inString) ==
    IF pos > Len(chars) THEN pos
    ELSE IF inString /\ chars[pos] = "\"" THEN pos
    ELSE IF ~inString /\ ~IsDigit(chars[pos]) THEN pos
    ELSE ScanTo(chars, pos + 1, inString)

\* JSON.parse of the text of an object whose values are unsigned integers and
\* strings without escapes, written without white space; `throws` for any
\* other text.  members is the parsed object.
RECURSIVE ParseMembers(_, _, _)
ParseMembers(chars, pos, members) ==
    LET keyEnd == ScanTo(chars, pos + 1, TRUE)
        valPos == keyEnd + 2
        key == SubSeq(chars, pos + 1, keyEnd - 1)
        failed == [throws |-> TRUE, members |-> <<>>]
    IN  IF pos > Len(chars) \/ chars[pos] # "\"" THEN failed
        ELSE IF keyEnd + 2 > Len(chars) \/ chars[keyEnd + 1] # ":" THEN failed
        ELSE LET isString == chars[valPos] = "\""
                 valEnd == IF isString THEN ScanTo(chars, valPos + 1, TRUE) + 1
                           ELSE ScanTo(chars, valPos, FALSE)
                 value == IF isString
                          THEN JsonString(SubSeq(chars, valPos + 1, valEnd - 2))
                          ELSE JsonNumber(ParseDecimal(SubSeq(chars, valPos, valEnd - 1), -1))
                 all == Append(members, Member(key, value))
             IN  IF ~isString /\ ~IsDigit(chars[valPos]) THEN failed
                 ELSE IF valEnd > Len(chars) THEN failed
                 ELSE IF chars[valEnd] = "}" /\ valEnd = Len(chars)
                 THEN [throws |-> FALSE, members |-> all]
                 ELSE IF chars[valEnd] = ","
                 THEN ParseMembers(chars, valEnd + 1, all)
                 ELSE failed

JsonParse(chars) ==
    IF Len(chars) < 2 \/ chars[1] # "{" THEN [throws |-> TRUE, members |-> <<>>]
    ELSE IF Len(chars) = 2 /\ chars[2] = "}" THEN [throws |-> FALSE, members |-> <<>>]
    ELSE ParseMembers(chars, 2, <<>>)

StrV == <<"_", "v">>

\* topicLookup(topicIndex), for a lookup [table |-> names by index].
TopicLookup(topicLookup, topicIndex) ==
    IF topicIndex \in DOMAIN topicLookup.table
    THEN JsonString(topicLookup.table[topicIndex]) ELSE Undefined

\* The object inspectPublishFrame returns.
FrameMeta(frameType, topicIndex, topicName, version, binaryHasEnvelope, binaryPayloadOffset, jsonString) ==
    [frameType |-> frameType, topicIndex |-> topicIndex, topicName |-> topicName,
     version |-> version, binaryHasEnvelope |-> binaryHasEnvelope,
     binaryPayloadOffset |-> binaryPayloadOffset, jsonString |-> jsonString]

FrameUnknown ==
    FrameMeta("unknown", Undefined, Undefined, Undefined, Undefined, Undefined, Undefined)

\* Lines 33-59: the JSON branch; a raising JSON.parse is caught.
InspectJson(payload, topicLookup) ==
    LET jsonString == Utf8Decode(DropN(payload, RAFT_PUBLISH_PREFIX_LEN))
        parsed == JsonParse(jsonString)
        jsonObj == JsonObject(parsed.members)
        tIsNumber == JsonHas(jsonObj, StrT) /\ JsonGet(jsonObj, StrT).ty = "number"
        tIsString == JsonHas(jsonObj, StrT) /\ JsonGet(jsonObj, StrT).ty = "string"
        topicIndex == IF tIsNumber THEN JsonGet(jsonObj, StrT) ELSE Undefined
        topicName == IF tIsNumber
                     THEN IF topicLookup # Undefined
                          THEN TopicLookup(topicLookup, JsonGet(jsonObj, StrT).n)
                          ELSE Undefined
                     ELSE IF tIsString THEN JsonGet(jsonObj, StrT)
                     ELSE Undefined
        version == IF JsonHas(jsonObj, StrV) /\ JsonGet(jsonObj, StrV).ty = "number"
                   THEN JsonGet(jsonObj, StrV) ELSE Undefined
    IN  IF parsed.throws THEN FrameUnknown
        ELSE FrameMeta("json", topicIndex, topicName, version, Undefined, Undefined,
                       JsonString(jsonString))

\* firstBinaryByte < DEVBIN_MAGIC_MIN || firstBinaryByte > DEVBIN_MAGIC_MAX
UnknownEnvelopeVersion_NoLowerBound(firstBinaryByte) ==
    firstBinaryByte > DEVBIN_MAGIC_MAX
UnknownEnvelopeVersion(firstBinaryByte) ==
    firstBinaryByte < DEVBIN_MAGIC_MIN \/ firstBinaryByte > DEVBIN_MAGIC_MAX

\* The topic name of an enveloped binary frame (lines 71-74).
BinaryTopicName_NoSentinel(topicIndex, topicLookup) ==
    IF topicIndex # Undefined /\ topicLookup # Undefined
    THEN TopicLookup(topicLookup, topicIndex.n)
    ELSE Undefined
BinaryTopicName(topicIndex, topicLookup) ==
    IF topicIndex # Undefined /\ topicIndex # JsonNumber(255) /\ topicLookup # Undefined
    THEN TopicLookup(topicLookup, topicIndex.n)
    ELSE Undefined

\* Lines 61-92: the binary branches.
InspectBinary(payload, topicLookup) ==
    LET payloadStartPos == RAFT_PUBLISH_PREFIX_LEN
        firstBinaryByte == ByteAt(payload, payloadStartPos)
        topicIndex == IF Len(payload) > payloadStartPos + 1
                      THEN JsonNumber(ByteAt(payload, payloadStartPos + 1))
                      ELSE Undefined
    IN  IF HighNibble(firstBinaryByte) = 208
        THEN IF UnknownEnvelopeVersion(firstBinaryByte)
             THEN FrameMeta("binary", Undefined, Undefined, Undefined,
                            JsonBoolean(TRUE), Undefined, Undefined)
             ELSE FrameMeta("binary", topicIndex,
                            BinaryTopicName(topicIndex, topicLookup),
                            JsonNumber(firstBinaryByte - DEVBIN_VERSION_BASE),
                            JsonBoolean(TRUE), JsonNumber(payloadStartPos + 2),
                            Undefined)
        ELSE FrameMeta("binary", Undefined, Undefined, Undefined,
                       JsonBoolean(FALSE), JsonNumber(payloadStartPos), Undefined)

\* inspectPublishFrame(payload, topicLookup); topicLookup is Undefined when the
\* caller supplies none.
inspectPublishFrame(payload, topicLookup) ==
    IF Len(payload) < RAFT_PUBLISH_PREFIX_LEN THEN FrameUnknown
    ELSE IF Len(payload) <= RAFT_PUBLISH_PREFIX_LEN THEN FrameUnknown
    ELSE IF ByteAt(payload, RAFT_PUBLISH_PREFIX_LEN) = OpenBraceByte
    THEN InspectJson(payload, topicLookup)
    ELSE InspectBinary(payload, topicLookup)

(***************************************************************************)
(* SpecPublish: the classifier applied to publish frames as the transport  *)
(* hands them over, with and without a topic lookup.                       *)
(***************************************************************************)
\* The two prefix bytes of a publish frame.
PublishPrefix == <<0, 128>>
PublishFirstBytes == {0, 26, 125, 208, 218, 219, 221, 223, 224, 235}
PublishTails == {<<>>, <<1>>, <<3>>, <<255>>, <<1, 0, 7>>}
PublishBinaryPayloads ==
    {PublishPrefix \o <<b>> \o tail : b \in PublishFirstBytes, tail \in PublishTails}
PublishShortPayloads == {<<>>, <<0>>, PublishPrefix}

\* {}   {"_t":1}   {"_t":3}   {"_t":"devjson"}   {"_t":2,"_v":1}   {"_v":"1"}
PublishValidJsonTexts ==
    { <<"{", "}">>,
      <<"{", "\"", "_", "t", "\"", ":", "1", "}">>,
      <<"{", "\"", "_", "t", "\"", ":", "3", "}">>,
      <<"{", "\"", "_", "t", "\"", ":", "\"">> \o StrDevjson \o <<"\"", "}">>,
      <<"{", "\"", "_", "t", "\"", ":", "2", ",", "\"", "_", "v", "\"", ":", "1", "}">>,
      <<"{", "\"", "_", "v", "\"", ":", "\"", "1", "\"", "}">> }
\* Texts JSON.parse rejects:  {   {"_t":1   {x}   {"_t" 1}
PublishInvalidJsonTexts ==
    { <<"{">>,
      <<"{", "\"", "_", "t", "\"", ":", "1">>,
      <<"{", "x", "}">>,
      <<"{", "\"", "_", "t", "\"", " ", "1", "}">> }
PublishJsonTexts == PublishValidJsonTexts \cup PublishInvalidJsonTexts
PublishJsonPayloads == {PublishPrefix \o Utf8Encode(txt) : txt \in PublishJsonTexts}
PublishPayloads ==
    PublishShortPayloads \cup PublishBinaryPayloads \cup PublishJsonPayloads

\* A lookup that knows topics 1 and 2, one that also names index 255, and no
\* lookup at all.
TopicTableWide == [i \in {1, 2, 255} |-> IF i = 2 THEN StrDevjson ELSE StrDevbin]
PublishLookups == {Undefined, [table |-> TopicTable], [table |-> TopicTableWide]}

\* One call of inspectPublishFrame; what it returned is logged with its
\* arguments.
InspectPublishFrame(payload, topicLookup) ==
    /\ framesDelivered < MaxFrames
    /\ framesDelivered' = framesDelivered + 1
    /\ cbLog' = <<[ev |-> "inspectPublishFrame", payload |-> payload,
                   topicLookup |-> topicLookup,
                   arg |-> inspectPublishFrame(payload, topicLookup)]>>
    /\ Unchanged_Program
    /\ Unchanged_Config
    /\ UNCHANGED <<now, ticks>>

PublishInspect ==
    \E payload \in PublishPayloads : \E topicLookup \in PublishLookups :
        InspectPublishFrame(payload, topicLookup)

NextPublish == PublishInspect

SpecPublish == Init /\ [][NextPublish]_vars

(***************************************************************************)
(* Properties of the classifier (checked under SpecPublish)                *)
(***************************************************************************)
\* The calls of inspectPublishFrame logged by the last step.
Inspections == {i \in DOMAIN cbLog : cbLog[i].ev = "inspectPublishFrame"}

\* C17: for a frame of at least 3 bytes whose third byte b is not 0x7B: with b
\* in 0xDB..0xDF the frame is binary with an envelope, version b - 0xDA and
\* payload offset 4; with high nibble 0xD and b outside that range it is
\* binary with an envelope and no version, topic or payload offset; otherwise
\* it is binary without an envelope, with payload offset 2.
C17_BinaryClassification ==
    \A i \in Inspections :
        LET payload == cbLog[i].payload
            meta == cbLog[i].arg
            b == payload[3]
        IN  (Len(payload) >= 3 /\ b # 123) =>
              /\ meta.frameType = "binary"
              /\ (b >= 219 /\ b <= 223) =>
                    /\ meta.binaryHasEnvelope = JsonBoolean(TRUE)
                    /\ meta.version = JsonNumber(b - 218)
                    /\ meta.binaryPayloadOffset = JsonNumber(4)
              /\ (b \div 16 = 13 /\ ~(b >= 219 /\ b <= 223)) =>
                    /\ meta.binaryHasEnvelope = JsonBoolean(TRUE)
                    /\ meta.version = Undefined
                    /\ meta.topicIndex = Undefined
                    /\ meta.topicName = Undefined
                    /\ meta.binaryPayloadOffset = Undefined
              /\ (b \div 16 # 13) =>
                    /\ meta.binaryHasEnvelope = JsonBoolean(FALSE)
                    /\ meta.binaryPayloadOffset = JsonNumber(2)

\* A frame with third byte 0xDD and topic byte 1 was classified with the
\* lookup: version 3, topic devbin.
C17_Witness ==
    \E i \in Inspections :
        /\ cbLog[i].payload = PublishPrefix \o <<221, 1>>
        /\ cbLog[i].topicLookup # Undefined
        /\ cbLog[i].arg.version = JsonNumber(3)
        /\ cbLog[i].arg.topicName = JsonString(StrDevbin)
        /\ cbLog[i].arg.binaryPayloadOffset = JsonNumber(4)

\* The frame is one of the JSON frames whose text JSON.parse rejects.
InvalidJsonFrame(payload) ==
    \E txt \in PublishInvalidJsonTexts : payload = PublishPrefix \o Utf8Encode(txt)

\* The frame is a JSON frame whose _t is a string.
NamedJsonFrame(payload) ==
    /\ Len(payload) >= 3
    /\ payload[3] = 123
    /\ LET parsed == JsonParse(Utf8Decode(DropN(payload, 2)))
       IN  /\ ~parsed.throws
           /\ \E m \in DOMAIN parsed.members :
                 parsed.members[m].k = StrT /\ parsed.members[m].v.ty = "string"

\* The call returned an object: it did not raise.
Returned(meta) == meta.frameType \in {"unknown", "json", "binary"}

\* No lookup was supplied, the frame's topic index is unmapped, or the frame
\* is binary with topic byte 0xFF.
NoNameToResolve(payload, topicLookup, meta) ==
    \/ topicLookup = Undefined
    \/ (meta.topicIndex # Undefined /\ meta.topicIndex.n \notin DOMAIN topicLookup.table)
    \/ (meta.frameType = "binary" /\ Len(payload) >= 4 /\ payload[4] = 255)

\* C18 as stated: inspectPublishFrame never raises; a frame of at most 2 bytes
\* and a frame with third byte 0x7B whose JSON is invalid are unknown; the
\* topic name is undefined whenever no lookup is supplied, the index is
\* unmapped, or the binary topic byte is 0xFF.
C18_NameUndefinedWithoutLookup ==
    \A i \in Inspections :
        LET payload == cbLog[i].payload
            meta == cbLog[i].arg
        IN  /\ Returned(meta)
            /\ Len(payload) <= 2 => meta.frameType = "unknown"
            /\ InvalidJsonFrame(payload) => meta.frameType = "unknown"
            /\ NoNameToResolve(payload, cbLog[i].topicLookup, meta)
                  => meta.topicName = Undefined

\* C18, amended: as above, but the topic name is undefined under those
\* conditions for every frame other than a JSON frame whose _t is a string;
\* such a frame's topic name is that string, with or without a lookup.
C18_IndexNameUndefinedWithoutLookup ==
    \A i \in Inspections :
        LET payload == cbLog[i].payload
            meta == cbLog[i].arg
        IN  /\ Returned(meta)
            /\ Len(payload) <= 2 => meta.frameType = "unknown"
            /\ InvalidJsonFrame(payload) => meta.frameType = "unknown"
            /\ (NoNameToResolve(payload, cbLog[i].topicLookup, meta)
                  /\ ~NamedJsonFrame(payload))
                  => meta.topicName = Undefined
            /\ NamedJsonFrame(payload) => meta.topicName # Undefined

\* An enveloped frame with topic byte 0xFF was classified with a lookup that
\* names index 255, and its topic name is undefined.
C18_Witness ==
    \E i \in Inspections :
        /\ cbLog[i].payload = PublishPrefix \o <<221, 255>>
        /\ cbLog[i].topicLookup = [table |-> TopicTableWide]
        /\ cbLog[i].arg.topicIndex = JsonNumber(255)
        /\ cbLog[i].arg.topicName = Undefined

(***************************************************************************)
(* SpecJson: JSON frames for device 1_6a that carry the reserved keys _i   *)
(* and _o and the marker _buf, with a decoded-data callback registered.    *)
(***************************************************************************)
StrOne == <<"1">>

\* {"1":{"6a":{ ...members... }}}
JsonFor6a(members) ==
    JsonObject(<<Member(StrBus1, JsonObject(<<Member(Str6a, JsonObject(members))>>))>>)

\* The one device entry of such a frame.
EntryOf(data) == data.members[1].v.members[1].v

\* {"1":{"6a":{"_i":11,"_o":1,"_buf":1,"x1":"05"}}}
JsonOnlineBuf ==
    JsonFor6a(<<Member(StrI, JsonNumber(11)), Member(StrO, JsonNumber(1)),
                Member(StrBuf, JsonNumber(1)), Member(StrX1, JsonString(StrHex05))>>)
\* {"1":{"6a":{"_i":11,"_o":"1","x1":"05"}}}
JsonOnlineText ==
    JsonFor6a(<<Member(StrI, JsonNumber(11)), Member(StrO, JsonString(StrOne)),
                Member(StrX1, JsonString(StrHex05))>>)
\* {"1":{"6a":{"_i":11,"_o":0,"x1":"06"}}}
JsonOffline ==
    JsonFor6a(<<Member(StrI, JsonNumber(11)), Member(StrO, JsonNumber(0)),
                Member(StrX1, JsonString(StrHex06))>>)
\* {"1":{"6a":{"_i":11,"_o":3,"x1":"06"}}}
JsonOther ==
    JsonFor6a(<<Member(StrI, JsonNumber(11)), Member(StrO, JsonNumber(3)),
                Member(StrX1, JsonString(StrHex06))>>)
\* {"1":{"6a":{"_i":11,"_o":2,"x1":"05"}}}
JsonPendingDeletion ==
    JsonFor6a(<<Member(StrI, JsonNumber(11)), Member(StrO, JsonNumber(2)),
                Member(StrX1, JsonString(StrHex05))>>)

JsonFrames ==
    {JsonA, JsonOnlineBuf, JsonOnlineText, JsonOffline, JsonOther, JsonPendingDeletion}
JsonResponses == {RpcOk(TypeInfoServo), RpcFail}

JsonSetup == Setup(SystemUtilsReady)
JsonAddDecodedDataCallback ==
    /\ framesDelivered = 0
    /\ AddDecodedDataCallback("onDecodedData")
JsonAddDeviceRemovedCallback ==
    /\ framesDelivered = 0
    /\ AddDeviceRemovedCallback("cbA")
JsonDeliverJson == \E data \in JsonFrames : DeliverJson(data)
JsonRpcResponse == \E resp \in JsonResponses : RpcResponse(1, resp)

NextJson ==
    \/ JsonSetup
    \/ JsonAddDecodedDataCallback
    \/ JsonAddDeviceRemovedCallback
    \/ JsonDeliverJson
    \/ JsonRpcResponse
    \/ RunRequestSettled
    \/ RunWaiterResolved
    \/ RunHandlerResumed

SpecJson == Init /\ [][NextJson]_vars

(***************************************************************************)
(* Properties of JSON device entries (checked under SpecJson)              *)
(***************************************************************************)
\* The closure of device entry t continues after its await in this step.
ResumesJson(t) ==
    /\ tasks[t].kind = "json"
    /\ tasks[t].pc = "resuming"
    /\ tasks'[t].pc = "done"
    /\ tasks'[t].exit = "completed"

\* The decoded-data events of this step.
DecodedNow == {i \in DOMAIN cbLog' : cbLog'[i].ev = "decodedData"}

\* The underscore keys of a device entry other than _t, _i and _o, with their
\* values.
UnreservedMarkers(attrGroups) ==
    SelectSeq(attrGroups.members,
              LAMBDA m : StartsWithUnderscore(m.k) /\ m.k \notin {StrT, StrI, StrO})

\* C19 as the specification states it: the markers carried with the decoded
\* data of a JSON device entry are exactly the entry's keys that begin with
\* an underscore other than _t, _i and _o.
C19_MarkersExcludeReservedKeys ==
    [][/\ \A data \in JsonFrames : DeliverJson(data) =>
             \A i \in DecodedNow :
                cbLog'[i].arg.markers = UnreservedMarkers(EntryOf(data))
       /\ \A t \in DOMAIN tasks : ResumesJson(t) =>
             \A i \in DecodedNow :
                cbLog'[i].arg.markers = UnreservedMarkers(tasks[t].frame.attrGroups)]_vars

\* The decoded data of entry {"_i":11,"_o":1,"_buf":1,"x1":"05"} was delivered
\* with the markers _i and _buf.
C19_Witness ==
    \E i \in DOMAIN cbLog :
        /\ cbLog[i].ev = "decodedData"
        /\ cbLog[i].deviceKey = Key6a
        /\ cbLog[i].arg.markers =
              <<Member(StrI, JsonNumber(11)), Member(StrBuf, JsonNumber(1))>>

\* The number _o denotes: a number, or a string of decimal digits.
OValue(attrGroups) ==
    LET o == CHOOSE m \in {attrGroups.members[i] : i \in DOMAIN attrGroups.members} :
                 m.k = StrO
    IN  IF o.v.ty = "number" THEN o.v.n
        ELSE IF o.v.s = StrOne THEN 1
        ELSE -1

HasO(attrGroups) == \E i \in DOMAIN attrGroups.members : attrGroups.members[i].k = StrO

\* What the step that processes device entry attrGroups of 1_6a leaves.
OnlineStateFollows(attrGroups) ==
    /\ (HasO(attrGroups) /\ OValue(attrGroups) = 1) =>
          /\ Key6a \in DOMAIN devicesState'
          /\ devicesState'[Key6a].onlineState = Online
    /\ (HasO(attrGroups) /\ OValue(attrGroups) = 2) =>
          /\ Key6a \notin DOMAIN devicesState'
          /\ Key6a \notin DOMAIN deviceStats'
          /\ \A i \in DOMAIN cbLog' : cbLog'[i].ev \notin {"decodedData", "newData"}
    /\ (HasO(attrGroups) /\ OValue(attrGroups) \notin {1, 2}) =>
          /\ Key6a \in DOMAIN devicesState'
          /\ devicesState'[Key6a].onlineState = Offline
    /\ ~HasO(attrGroups) =>
          /\ Key6a \in DOMAIN devicesState'
          /\ Key6a \in DOMAIN devicesState =>
                devicesState'[Key6a].onlineState = devicesState[Key6a].onlineState

\* C20: a JSON device entry with _o = 1 sets the device Online, with _o = 2
\* removes the device and processes none of its attribute groups, with any
\* other _o sets it Offline; an entry without _o leaves onlineState unchanged.
\* The entry is processed in the step its frame arrives in when the device's
\* schema is known, and else in the step its closure continues after the
\* schema fetch.
C20_OnlineStateFromO ==
    [][/\ \A data \in JsonFrames :
             (DeliverJson(data) /\ Len(tasks') = Len(tasks)) =>
                OnlineStateFollows(EntryOf(data))
       /\ \A t \in DOMAIN tasks : ResumesJson(t) =>
             OnlineStateFollows(tasks[t].frame.attrGroups)]_vars

\* The device went Offline by an entry with _o = 0 and an entry with _o = 1
\* has now set it Online.
C20_Witness ==
    /\ framesDelivered = 3
    /\ Key6a \in DOMAIN devicesState
    /\ devicesState[Key6a].onlineState = Online
    /\ StrX1 \in DOMAIN devicesState[Key6a].deviceAttributes
    /\ devicesState[Key6a].deviceAttributes[StrX1].appended = <<6, 5>>
    /\ Idle

(***************************************************************************)
(* SpecAddr: binary records over the range of 32-bit device addresses, and *)
(* JSON entries with address strings as sent.                              *)
(***************************************************************************)
AddrZero == <<0, 0, 0, 0>>
Addr7fffffff == <<127, 255, 255, 255>>
Addr8000006a == <<128, 0, 0, 106>>
Addrffffffff == <<255, 255, 255, 255>>
AddrRange == {AddrZero, Addr6a, Addr7fffffff, Addr8000006a, Addrffffffff}

\* 0080 DB01 | 0008 81 <address> 000b 05
FrameFor(addr) ==
    MsgTypePrefix \o <<219, 1>> \o MkRecord(StatusOnlineBus1, addr, 11, <<5>>)
AddrBinaryFrames == {FrameFor(addr) : addr \in AddrRange}

\* {"1":{"06a":{"_i":11,"x1":"05"}}}
Str06a == <<"0", "6", "a">>
JsonLeadingZero ==
    JsonObject(<<Member(StrBus1, JsonObject(<<
        Member(Str06a, JsonObject(<<Member(StrI, JsonNumber(11)),
                                    Member(StrX1, JsonString(StrHex05))>>))>>))>>)
AddrJsonFrames == {JsonA, JsonLeadingZero}

AddrDeliverBinary == \E f \in AddrBinaryFrames : DeliverBinary(f)
AddrDeliverJson == \E data \in AddrJsonFrames : DeliverJson(data)

NextAddr ==
    \/ StoreSetup
    \/ AddrDeliverBinary
    \/ AddrDeliverJson
    \/ JsonRpcResponse
    \/ RunRequestSettled
    \/ RunWaiterResolved
    \/ RunHandlerResumed

SpecAddr == Init /\ [][NextAddr]_vars

(***************************************************************************)
(* Properties of the device keys (checked under SpecAddr)                  *)
(***************************************************************************)
\* A string of digits without its leading zeros (the last digit is kept).
RECURSIVE StripLeadingZeros(_)
StripLeadingZeros(str) ==
    IF Len(str) > 1 /\ Head(str) = "0" THEN StripLeadingZeros(Tail(str)) ELSE str

\* The canonical hex of the unsigned 32-bit address in the four bytes at
\* recordPos, big-endian: two digits per byte, leading zeros removed.
UnsignedAddrHexAt(rxMsg, recordPos) ==
    StripLeadingZeros(
        <<DigitChars[(ByteAt(rxMsg, recordPos) \div 16) + 1],
          DigitChars[(ByteAt(rxMsg, recordPos) % 16) + 1],
          DigitChars[(ByteAt(rxMsg, recordPos + 1) \div 16) + 1],
          DigitChars[(ByteAt(rxMsg, recordPos + 1) % 16) + 1],
          DigitChars[(ByteAt(rxMsg, recordPos + 2) \div 16) + 1],
          DigitChars[(ByteAt(rxMsg, recordPos + 2) % 16) + 1],
          DigitChars[(ByteAt(rxMsg, recordPos + 3) \div 16) + 1],
          DigitChars[(ByteAt(rxMsg, recordPos + 3) % 16) + 1]>>)

\* Lowercase hex digits, at least one, no leading zero (so no sign, no prefix).
CanonicalHex(str) ==
    /\ Len(str) >= 1
    /\ \A i \in DOMAIN str : HexDigitValue(str[i]) >= 0
    /\ Len(str) > 1 => str[1] # "0"

\* k is <bus>_<addr> with a canonical address.
CanonicalKey(k) ==
    \E p \in 2..Len(k) :
        /\ k[p] = "_"
        /\ \A q \in 1..(p - 1) : k[q] # "_"
        /\ CanonicalHex(SubSeq(k, p + 1, Len(k)))

\* C21 as the specification states it: every key of the device-state map is
\* <bus>_<addr> with <addr> the canonical lowercase hex of the unsigned
\* address (no prefix, no leading zeros, no sign); the key computed for a
\* binary record is the one of the record's unsigned 32-bit address.
C21_CanonicalDeviceKeys ==
    /\ \A k \in DOMAIN devicesState : CanonicalKey(k)
    /\ \A t \in DOMAIN tasks : tasks[t].kind = "bin" =>
          \A i \in DOMAIN tasks[t].visited :
             LET pos == tasks[t].visited[i]
                 hdr == RecordHeader(tasks[t].frame, pos)
             IN  hdr.deviceKey =
                    getDeviceKey(hdr.busName,
                                 UnsignedAddrHexAt(tasks[t].frame,
                                                   pos + RecordLenLen + BusInfoLen))

\* The record of address 0x8000006a has made the device 1_-7fffff96.
KeyNegative == StrBus1 \o <<"_", "-", "7", "f", "f", "f", "f", "f", "9", "6">>
C21_Witness ==
    /\ KeyNegative \in DOMAIN devicesState
    /\ \E t \in DOMAIN tasks :
          /\ tasks[t].kind = "bin"
          /\ tasks[t].frame = FrameFor(Addr8000006a)
          /\ tasks[t].exit = "completed"

(***************************************************************************)
(* The write path: sendCommand and sendAction.  A call is a task of kind   *)
(* "send"; its frame holds the command it built, its result what the call  *)
(* returned.                                                               *)
(***************************************************************************)
MaxSends == 2

\* What sendRICRESTURL(cmd) can do for a write: answer rslt "ok", answer
\* another rslt, answer nothing (null), or raise.
WriteResponses == {"ok", "fail", "null", "raise"}

\* byte.toString(16).padStart(2, "0") for each byte, joined.
toHex(data) ==
    [i \in 1..(2 * Len(data)) |->
        IF i % 2 = 1 THEN DigitChars[(data[(i + 1) \div 2] \div 16) + 1]
        ELSE DigitChars[(data[i \div 2] % 16) + 1]]

\* structPack(format, values) for a format of "B" codes: one unsigned byte for
\* each code, from the values in order.
structPack(format, values) ==
    [i \in 1..Len(format) |-> IF i <= Len(values) THEN values[i] % 256 ELSE 0]

\* parseDeviceKey(deviceKey)
parseDeviceKey(deviceKey) ==
    IF \A i \in DOMAIN deviceKey : deviceKey[i] # "_"
    THEN [bus |-> deviceKey, addr |-> <<>>]
    ELSE LET sep == CHOOSE i \in DOMAIN deviceKey :
                       deviceKey[i] = "_" /\ \A j \in 1..(i - 1) : deviceKey[j] # "_"
         IN  [bus |-> SubSeq(deviceKey, 1, sep - 1),
              addr |-> SubSeq(deviceKey, sep + 1, Len(deviceKey))]

\* Lines 770-792: the values sendAction hands to structPack.
ValuesToPack(action, data) ==
    IF Len(data) = 1
    THEN LET value1 == IF action.sub # Undefined THEN data[1] - action.sub.n ELSE data[1]
             value2 == IF action.mul # Undefined THEN value1 * action.mul.n ELSE value1
         IN  <<value2>>
    ELSE data

\* Lines 766-803: the command sendAction builds.
ActionCmd(deviceKey, action, data) ==
    LET writeBytes == IF action.t # Undefined
                      THEN structPack(action.t.s, ValuesToPack(action, data))
                      ELSE <<>>
        writeHexStr == (IF action.w # Undefined THEN action.w.s ELSE <<>>)
                       \o toHex(writeBytes)
                       \o (IF action.wz # Undefined THEN action.wz.s ELSE <<>>)
    IN  [url |-> "devman/cmdraw", bus |-> parseDeviceKey(deviceKey).bus,
         addr |-> parseDeviceKey(deviceKey).addr, hexWr |-> writeHexStr]

\* msgRslt.rslt === "ok"; reading rslt of a null answer raises, and whatever
\* is raised inside the try block is caught and gives false.
WriteResult_Uncaught(resp) == resp # "fail"
WriteResult(resp) == resp = "ok"

\* Lines 808-822 and 119-132, up to the await: with a message handler the RPC
\* is sent and awaited, without one the call returns false.
SendStart(s, call, cmd, args) ==
    LET task == [NewTask("send", [call |-> call, cmd |-> cmd, args |-> args])
                    EXCEPT !.how = IF HasMsgHandler(s) THEN "rpc" ELSE "nohandler"]
    IN  IF HasMsgHandler(s)
        THEN [s EXCEPT !.tasks = Append(@, [task EXCEPT !.pc = "rpc"])]
        ELSE [s EXCEPT !.tasks = Append(@, [task EXCEPT !.pc = "done",
                                                        !.exit = "returned",
                                                        !.result = JsonBoolean(FALSE)])]

\* The sendCompoundAction call that awaits call t, or 0.
CallerOf(task) ==
    IF task.frame.call = "sendAction" /\ "caller" \in DOMAIN task.frame.args
    THEN task.frame.args.caller
    ELSE 0

\* The write RPC of call t has answered or raised: the call returns, and the
\* continuation of the sendCompoundAction that awaits it, if any, is queued.
SendDone(s, t, resp) ==
    [s EXCEPT !.tasks[t].pc = "done",
              !.tasks[t].exit = "returned",
              !.tasks[t].settle = resp,
              !.tasks[t].result = JsonBoolean(WriteResult(resp)),
              !.microtasks = IF CallerOf(s.tasks[t]) # 0
                             THEN Append(@, Job(CallerOf(s.tasks[t]), "sendCont"))
                             ELSE @]

SendCalls == Cardinality({t \in DOMAIN tasks : tasks[t].kind = "send"})

\* sendCommand(cmd)
SendCommand(cmd) ==
    /\ Idle
    /\ SendCalls < MaxSends
    /\ Commit(SendStart([State EXCEPT !.cbLog = <<>>], "sendCommand", cmd, <<>>))
    /\ Unchanged_Config
    /\ UNCHANGED <<now, ticks, framesDelivered>>

\* sendAction(deviceKey, action, data)
SendAction(deviceKey, action, data) ==
    /\ Idle
    /\ SendCalls < MaxSends
    /\ Commit(SendStart([State EXCEPT !.cbLog = <<>>], "sendAction",
                        ActionCmd(deviceKey, action, data),
                        [deviceKey |-> deviceKey, action |-> action, data |-> data]))
    /\ Unchanged_Config
    /\ UNCHANGED <<now, ticks, framesDelivered>>

\* The write RPC of call t is answered (or raises).
WriteRpcResponse(t, resp) ==
    /\ Idle
    /\ t \in DOMAIN tasks
    /\ tasks[t].kind = "send"
    /\ tasks[t].pc = "rpc"
    /\ Commit(SendDone([State EXCEPT !.cbLog = <<>>], t, resp))
    /\ Unchanged_Config
    /\ UNCHANGED <<now, ticks, framesDelivered>>

(***************************************************************************)
(* SpecSend: commands and actions are sent, with and without a message     *)
(* handler, while device 1_6a reports.                                     *)
(***************************************************************************)
StrB == <<"B">>
StrBB == <<"B", "B">>
StrHex0a == <<"0", "a">>
\* {n: "pos", t: "B"}
ActionPlain ==
    [t |-> JsonString(StrB), sub |-> Undefined, mul |-> Undefined,
     w |-> Undefined, wz |-> Undefined]
\* {n: "pos", t: "B", w: "0a", sub: 1, mul: 2}
ActionScaled ==
    [t |-> JsonString(StrB), sub |-> JsonNumber(1), mul |-> JsonNumber(2),
     w |-> JsonString(StrHex0a), wz |-> Undefined]
\* {n: "pair", t: "BB", sub: 1, mul: 2, wz: "0a"}
ActionScaledPair ==
    [t |-> JsonString(StrBB), sub |-> JsonNumber(1), mul |-> JsonNumber(2),
     w |-> Undefined, wz |-> JsonString(StrHex0a)]
\* {n: "raw", w: "0a"}
ActionNoType ==
    [t |-> Undefined, sub |-> Undefined, mul |-> Undefined,
     w |-> JsonString(StrHex0a), wz |-> Undefined]
\* The actions sent, each with a values list of the length of its format.
SendActionCalls ==
    {<<ActionPlain, <<3>>>>, <<ActionScaled, <<3>>>>, <<ActionScaledPair, <<3, 4>>>>,
     <<ActionNoType, <<3, 4>>>>}
SendCmds == {<<"b", "l", "e", "r", "e", "s", "e", "t">>}

SendSetup == \E su \in {SystemUtilsReady, SystemUtilsNoHandler} : Setup(su)
SendDeliverBinary ==
    /\ framesDelivered = 0
    /\ DeliverBinary(FrameA)
SendSendCommand == \E cmd \in SendCmds : SendCommand(cmd)
SendSendAction == \E call \in SendActionCalls : SendAction(Key6a, call[1], call[2])
SendWriteRpcResponse ==
    \E t \in DOMAIN tasks : \E resp \in WriteResponses : WriteRpcResponse(t, resp)

NextSend ==
    \/ SendSetup
    \/ SendDeliverBinary
    \/ SendSendCommand
    \/ SendSendAction
    \/ SendWriteRpcResponse
    \/ LifeRpcResponse
    \/ RunRequestSettled
    \/ RunHandlerResumed

SpecSend == Init /\ [][NextSend]_vars

(***************************************************************************)
(* Properties of the write path (checked under SpecSend)                   *)
(***************************************************************************)
SendTasks(ts) == {t \in DOMAIN ts : ts[t].kind = "send"}

\* Every call that has returned returned a boolean, raised nothing, and
\* returned true exactly when its write RPC was sent and answered rslt "ok".
SendReturnsOk ==
    \A t \in SendTasks(tasks) :
        tasks[t].pc = "done" =>
            /\ tasks[t].exit = "returned"
            /\ tasks[t].result =
                  JsonBoolean(tasks[t].how = "rpc" /\ tasks[t].settle = "ok")

\* A step in which a call starts or returns changes no device state.
SendChangesNoState ==
    (\E t \in SendTasks(tasks') : t \notin DOMAIN tasks \/ tasks'[t] # tasks[t]) =>
        UNCHANGED <<devicesState, deviceLastUpdateTime, deviceStats,
                    cachedDeviceTypeRecs, pendingDeviceTypeRequests>>

\* C22: sendAction and sendCommand return true exactly when the write RPC
\* answers rslt "ok"; when the RPC raises or no message handler is set they
\* return false, raise nothing to the caller and change no device state.
C22_SendReturnsTrueOnlyOnOk == []SendReturnsOk /\ [][SendChangesNoState]_vars

\* Device 1_6a is known; one sendAction returned true on an ok answer and a
\* sendCommand returned false because its RPC raised.
C22_Witness ==
    /\ Key6a \in DOMAIN devicesState
    /\ Len(tasks) = 3
    /\ \E t \in SendTasks(tasks) :
          /\ tasks[t].frame.call = "sendAction"
          /\ tasks[t].settle = "ok"
          /\ tasks[t].result = JsonBoolean(TRUE)
    /\ \E t \in SendTasks(tasks) :
          /\ tasks[t].frame.call = "sendCommand"
          /\ tasks[t].settle = "raise"
          /\ tasks[t].result = JsonBoolean(FALSE)

\* The values of a list after the schema's conversion: subtract action.sub,
\* then multiply by action.mul.
Converted(action, data) ==
    [i \in DOMAIN data |->
        ((data[i] - (IF action.sub # Undefined THEN action.sub.n ELSE 0))
            * (IF action.mul # Undefined THEN action.mul.n ELSE 1))]

\* C23 as the specification states it: the bytes sendAction writes are the
\* packing of every value it was given after the schema's conversion
\* (subtract action.sub, then multiply by action.mul), for a values list of
\* any length.
C23_EncoderConvertsEveryValue ==
    \A t \in SendTasks(tasks) :
        (tasks[t].frame.call = "sendAction" /\ tasks[t].frame.args.action.t # Undefined) =>
            LET action == tasks[t].frame.args.action
                data == tasks[t].frame.args.data
            IN  tasks[t].frame.cmd.hexWr =
                    (IF action.w # Undefined THEN action.w.s ELSE <<>>)
                    \o toHex(structPack(action.t.s, Converted(action, data)))
                    \o (IF action.wz # Undefined THEN action.wz.s ELSE <<>>)

\* sendAction with {t: "BB", sub: 1, mul: 2, wz: "0a"} and the values 3, 4
\* wrote 03040a: the values were packed as given.
C23_Witness ==
    \E t \in SendTasks(tasks) :
        /\ tasks[t].frame.call = "sendAction"
        /\ tasks[t].frame.args.action = ActionScaledPair
        /\ tasks[t].frame.args.data = <<3, 4>>
        /\ tasks[t].frame.cmd.hexWr = <<"0", "3", "0", "4", "0", "a">>

(***************************************************************************)
(* SpecSkip: binary frames whose first record is of a type the firmware    *)
(* may fail to describe, followed by a record of device 1_6a.              *)
(***************************************************************************)
\* 0080 DBFF | 0008 81 0000006b 000c 06 | 0008 81 0000006a 000b 07
FrameB12ThenA ==
    MsgTypePrefix \o <<219, 255>> \o MkRecord(StatusOnlineBus1, Addr6b, 12, <<6>>)
                  \o MkRecord(StatusOnlineBus1, Addr6a, 11, <<7>>)
SkipBinaryFrames == {FrameA, FrameB12ThenA}

SkipDeliverBinary == \E f \in SkipBinaryFrames : DeliverBinary(f)

NextSkip ==
    \/ StoreSetup
    \/ SkipDeliverBinary
    \/ StoreRpcResponse
    \/ RunRequestSettled
    \/ RunWaiterResolved
    \/ RunHandlerResumed

SpecSkip == Init /\ [][NextSkip]_vars

(***************************************************************************)
(* Properties of unresolved records (checked under SpecSkip)               *)
(***************************************************************************)
\* The binary handler t continues in this step after an await that gave it
\* no schema.
ResumesUnresolved(t) ==
    /\ microtasks # <<>>
    /\ Head(microtasks) = Job(t, "callerCont")
    /\ tasks[t].kind = "bin"
    /\ tasks[t].settle = "fulfilled"
    /\ tasks[t].result = Undefined

\* The poll data of the record at pos.
PollDataAt(rxMsg, pos) ==
    SubSeq(rxMsg, pos + RecordLenLen + RecordHeaderLen + 1,
           pos + RecordLenLen + RecordLenAt(rxMsg, pos))

\* The schema of device k is known.
Resolved(k) ==
    /\ k \in DOMAIN devicesState
    /\ devicesState[k].deviceTypeInfo # Undefined
    /\ devicesState[k].deviceTypeInfo.resp # Undefined

\* C24: when the schema of a binary record cannot be resolved (the fetch
\* failed or was rate-limited), no device is created and no sample appended
\* for that record, its 2 + recordLen bytes are consumed, and the next record
\* of the frame is processed: it is visited, and when its device's schema is
\* known its poll data is appended in the same run.
C24_UnresolvedRecordSkipped ==
    [][\A t \in DOMAIN tasks : ResumesUnresolved(t) =>
          LET rxMsg == tasks[t].frame
              pos == tasks[t].msgPos
              next == pos + 2 + RecordLenAt(rxMsg, pos)
              k2 == KeyAt(rxMsg, next)
          IN  /\ NoGrowth(KeyAt(rxMsg, pos))
              /\ tasks'[t].exit # "aborted"
              /\ tasks'[t].msgPos >= next
              /\ next < Len(rxMsg) =>
                    /\ \E i \in DOMAIN tasks'[t].visited : tasks'[t].visited[i] = next
                    /\ Resolved(k2) =>
                          devicesState'[k2].deviceAttributes[StrX1].appended
                             = devicesState[k2].deviceAttributes[StrX1].appended
                                  \o PollDataAt(rxMsg, next)]_vars

\* The fetch of type 12 failed: the frame 0080 DBFF | ...6b 000c 06 | ...6a
\* 000b 07 was handled to its end, 1_6b is not in the state map and the
\* sample 7 of 1_6a follows the sample 5 of an earlier frame.
C24_Witness ==
    /\ Len(tasks) = 2
    /\ tasks[1].frame = FrameA /\ tasks[1].exit = "completed"
    /\ tasks[2].frame = FrameB12ThenA /\ tasks[2].exit = "completed"
    /\ tasks[2].visited = <<4, 14>>
    /\ Key6b \notin DOMAIN devicesState
    /\ Key6a \in DOMAIN devicesState
    /\ StrX1 \in DOMAIN devicesState[Key6a].deviceAttributes
    /\ devicesState[Key6a].deviceAttributes[StrX1].appended = <<5, 7>>

(***************************************************************************)
(* SpecDecode: binary frames whose records make the decoder advance, fail  *)
(* and stall, for the schemas the firmware may describe a type with.       *)
(***************************************************************************)
\* A schema whose response block is declared zero bytes long: the decoder
\* appends a sample and returns the cursor it was given.
TypeInfoZero == [name |-> StrServo, resp |-> [b |-> 0, a |-> <<[n |-> StrX1, at |-> 0]>>]]
\* A schema whose declared block length is negative: the cursor goes back.
TypeInfoBack == [name |-> StrServo, resp |-> [b |-> -1, a |-> <<[n |-> StrX1, at |-> 0]>>]]

\* 0080 DBFF | 0008 81 0000006b 000d 05 | 0008 81 0000006a 000b 07
FrameB13ThenA ==
    MsgTypePrefix \o <<219, 255>> \o MkRecord(StatusOnlineBus1, Addr6b, 13, <<5>>)
                  \o MkRecord(StatusOnlineBus1, Addr6a, 11, <<7>>)
\* 0080 DBFF | 0008 81 0000006a 000b 07 | 000A 81 0000006b 000c 01 02 03
FrameAThenB12 ==
    MsgTypePrefix \o <<219, 255>> \o MkRecord(StatusOnlineBus1, Addr6a, 11, <<7>>)
                  \o MkRecord(StatusOnlineBus1, Addr6b, 12, <<1, 2, 3>>)
DecodeBinaryFrames == {FrameB13ThenA, FrameAThenB12}
DecodeResponses ==
    {RpcOk(TypeInfoServo), RpcOk(TypeInfoWide), RpcOk(TypeInfoZero), RpcOk(TypeInfoBack)}

DecodeDeliverBinary == \E f \in DecodeBinaryFrames : DeliverBinary(f)
DecodeRpcResponse == \E resp \in DecodeResponses : RpcResponse(1, resp)

NextDecode ==
    \/ StoreSetup
    \/ DecodeDeliverBinary
    \/ DecodeRpcResponse
    \/ RunRequestSettled
    \/ RunWaiterResolved
    \/ RunHandlerResumed

SpecDecode == Init /\ [][NextDecode]_vars

(***************************************************************************)
(* Properties of the poll data loop (checked under SpecDecode)             *)
(***************************************************************************)
\* The number of blocks of b bytes the decoder accepts from pos: a block is
\* tried while the cursor is inside the record and the frame, and accepted
\* when the frame holds b more bytes; one call only when b is not positive.
BlocksDecoded(b, rxMsg, pos, end) ==
    IF b <= 0 THEN (IF pos < Min(end, Len(rxMsg)) THEN 1 ELSE 0)
    ELSE Cardinality({k \in 0..Len(rxMsg) :
                         /\ pos + k * b < Min(end, Len(rxMsg))
                         /\ pos + (k + 1) * b <= Len(rxMsg)})

\* The values of attribute x1 these blocks hold, under schema resp.
SamplesDecoded(resp, rxMsg, pos, end) ==
    [k \in 1..BlocksDecoded(resp.b, rxMsg, pos, end) |->
        ByteAt(rxMsg, pos + (k - 1) * resp.b + resp.a[1].at)]

\* Every x1 value device k was ever given.
AppendedOf(ds, k) ==
    IF k \in DOMAIN ds /\ StrX1 \in DOMAIN ds[k].deviceAttributes
    THEN ds[k].deviceAttributes[StrX1].appended ELSE <<>>

\* Device k has a schema with a response block.
SchemaKnown(ds, k) ==
    /\ k \in DOMAIN ds
    /\ ds[k].deviceTypeInfo # Undefined
    /\ ds[k].deviceTypeInfo.resp # Undefined

\* The record positions binary handler t goes through in this step.
RecordsRun(t) ==
    {tasks'[t].visited[i] : i \in DOMAIN tasks'[t].visited}
        \cap {p \in 0..Len(tasks'[t].frame) :
                 /\ (IF t \in DOMAIN tasks THEN tasks[t].msgPos ELSE 0) <= p
                 /\ p < tasks'[t].msgPos}

\* C25: the binary handler ends each run for every frame and every cursor the
\* decoder returns: a negative or a non-advancing cursor ends the decode loop
\* of that record, the samples decoded before it stay appended (and nothing
\* else is), and the record that follows is still gone through; the handler
\* leaves the frame only at its end.
C25_DecodeLoopStops ==
    [][\A t \in DOMAIN tasks' : tasks'[t].kind = "bin" =>
          /\ tasks'[t].exit # "aborted"
          /\ tasks'[t].pc = "done" => tasks'[t].msgPos >= Len(tasks'[t].frame)
          /\ \A p \in RecordsRun(t) :
                LET rxMsg == tasks'[t].frame
                    k == KeyAt(rxMsg, p)
                    next == p + RecordLenLen + RecordLenAt(rxMsg, p)
                IN  /\ AppendedOf(devicesState', k)
                          = AppendedOf(devicesState, k)
                               \o (IF SchemaKnown(devicesState', k)
                                   THEN SamplesDecoded(devicesState'[k].deviceTypeInfo.resp,
                                                       rxMsg,
                                                       p + RecordLenLen + RecordHeaderLen,
                                                       next)
                                   ELSE <<>>)
                    /\ next < Len(rxMsg) =>
                          \E i \in DOMAIN tasks'[t].visited : tasks'[t].visited[i] = next]_vars

\* The frame 0080 DBFF | ...6b 000d 05 | ...6a 000b 07 was handled to its end
\* with a zero-length schema for type 13: the stalled call's sample 5 stays
\* with 1_6b, and the sample 7 of the next record is with 1_6a.
C25_Witness ==
    /\ Len(tasks) >= 1
    /\ tasks[1].frame = FrameB13ThenA /\ tasks[1].exit = "completed"
    /\ tasks[1].visited = <<4, 14>>
    /\ Key6b \in DOMAIN devicesState
    /\ devicesState[Key6b].deviceTypeInfo = TypeInfoZero
    /\ AppendedOf(devicesState, Key6b) = <<5>>
    /\ AppendedOf(devicesState, Key6a) = <<7>>

(***************************************************************************)
(* SpecJsonDecode: JSON frames for the schemas of SpecDecode.              *)
(***************************************************************************)
\* {"1":{"6b":{"_i":13,"x1":"05"}}}
JsonB13 ==
    JsonObject(<<Member(StrBus1, JsonObject(<<
        Member(Str6b, JsonObject(<<Member(StrI, JsonNumber(13)),
                                   Member(StrX1, JsonString(StrHex05))>>))>>))>>)
JsonDecodeFrames == {JsonA, JsonB13}

JsonDecodeDeliverJson == \E data \in JsonDecodeFrames : DeliverJson(data)

NextJsonDecode ==
    \/ StoreSetup
    \/ JsonDecodeDeliverJson
    \/ DecodeRpcResponse
    \/ RunRequestSettled
    \/ RunWaiterResolved
    \/ RunHandlerResumed

SpecJsonDecode == Init /\ [][NextJsonDecode]_vars

\* C26: the JSON attribute-group loop stops when the decoder fails or returns
\* a cursor that is not greater than the current one, so the JSON handling
\* ends for every cursor the decoder returns: no handler is left running.
C26_JsonLoopStops == ~Spinning(State)

\* The frame {"1":{"6b":{"_i":13,"x1":"05"}}} met a zero-length schema: the
\* closure of 1_6b never returned, its sample is in the state and nothing
\* else can run.
C26_Witness ==
    /\ Spinning(State)
    /\ \E t \in DOMAIN tasks :
          /\ tasks[t].kind = "json" /\ tasks[t].pc # "done"
          /\ tasks[t].result = TypeInfoZero
    /\ AppendedOf(devicesState, Key6b) = <<5>>

(***************************************************************************)
(* SpecPending: fetches with callers queued on them, answered, failed and  *)
(* raised; SpecPendingFair adds that the event loop runs its microtasks.   *)
(***************************************************************************)
PendingResponses == {RpcOk(TypeInfoServo), RpcFail, RpcRaise}

\* The clock passes the retry time once, so that a failed fetch is retried.
PendingTick == ticks = 0 /\ Tick(MinTimeBetweenDeviceTypeInfoRetrievalMs)
PendingDeliverBinary == DeliverBinary(CacheFrameA)
PendingRpcResponse == \E resp \in PendingResponses : RpcResponse(1, resp)

NextPending ==
    \/ CacheSetup
    \/ PendingTick
    \/ PendingDeliverBinary
    \/ CacheDeliverJson
    \/ PendingRpcResponse
    \/ RunRequestSettled
    \/ RunWaiterResolved
    \/ RunHandlerResumed

SpecPending == Init /\ [][NextPending]_vars

\* A queued microtask is run: the event loop drains the microtask queue
\* before it takes the next message or timer.  Only the continuation of
\* getDeviceTypeInfo and the reactions of the waiters' promises are assumed to
\* run; nothing is assumed of the handlers' continuations, of the frames or of
\* the RPC answers.
SpecPendingFair ==
    /\ SpecPending
    /\ WF_vars(RunRequestSettled)
    /\ WF_vars(RunWaiterResolved)

(***************************************************************************)
(* Properties of the pending-request bookkeeping (under SpecPendingFair)   *)
(***************************************************************************)
\* The type key of the frames' devices.
StrType11 == NumberToString(11, 10)

\* The fetch pending for key k has settled: the continuation of its initiator
\* is queued.
FetchSettled(k) ==
    /\ k \in DOMAIN pendingDeviceTypeRequests
    /\ \E i \in DOMAIN microtasks :
          microtasks[i] = Job(pendingDeviceTypeRequests[k].promise, "initCont")

\* The promise task t was handed when it joined an entry has been resolved or
\* rejected: its reaction is queued or has run.
ReactionQueued(mt, t) == \E i \in DOMAIN mt : mt[i] = Job(t, "react")

\* Task t waits in the queue of a pending entry, its promise not settled.
Queued(t) ==
    t \in DOMAIN tasks /\ tasks[t].pc = "queued" /\ ~ReactionQueued(microtasks, t)

QueuedOn(t, k) == Queued(t) /\ tasks[t].awaitType = k

\* An entry exists only while its fetch is in flight (its initiator is at the
\* await of the request), and a task that waits is in the queue of the entry
\* of its key.
PendingOnlyInFlight ==
    /\ \A k \in DOMAIN pendingDeviceTypeRequests :
          LET t == pendingDeviceTypeRequests[k].promise
          IN  t \in DOMAIN tasks /\ tasks[t].pc = "fetching" /\ tasks[t].awaitType = k
    /\ \A t \in DOMAIN tasks : Queued(t) =>
          /\ tasks[t].awaitType \in DOMAIN pendingDeviceTypeRequests
          /\ \E i \in DOMAIN pendingDeviceTypeRequests[tasks[t].awaitType].waitingQueue :
                pendingDeviceTypeRequests[tasks[t].awaitType].waitingQueue[i] = t

\* The step that resolves the waiters of an entry removes the entry, and the
\* step that adds a waiter adds it to an entry whose waiters are not resolved.
NoWaiterAfterResolve ==
    /\ \A k \in DOMAIN pendingDeviceTypeRequests :
          (\E i \in DOMAIN pendingDeviceTypeRequests[k].waitingQueue :
              ReactionQueued(microtasks', pendingDeviceTypeRequests[k].waitingQueue[i]))
          => /\ k \notin DOMAIN pendingDeviceTypeRequests'
             /\ \A i \in DOMAIN pendingDeviceTypeRequests[k].waitingQueue :
                   LET w == pendingDeviceTypeRequests[k].waitingQueue[i]
                       init == pendingDeviceTypeRequests[k].promise
                   IN  /\ tasks'[w].settle = tasks[init].settle
                       /\ tasks'[w].result = tasks[init].result
                       /\ ReactionQueued(microtasks', w)
    /\ \A t \in DOMAIN tasks' :
          (tasks'[t].pc = "queued" /\ (t \notin DOMAIN tasks \/ tasks[t].pc # "queued")) =>
             /\ tasks'[t].awaitType \in DOMAIN pendingDeviceTypeRequests'
             /\ tasks'[pendingDeviceTypeRequests'[tasks'[t].awaitType].promise].pc = "fetching"
             /\ \A w \in DOMAIN tasks :
                   (Queued(w) /\ tasks[w].awaitType = tasks'[t].awaitType)
                      => tasks'[w].pc = "queued" /\ ~ReactionQueued(microtasks', w)

\* C27: when a typeinfo fetch settles, with a schema or without, every caller
\* queued on it is eventually resolved and the pending entry of the key is
\* removed; an entry exists only while a fetch for its key is in flight, and
\* no waiter is added to an entry after its waiters were resolved.
C27_PendingClearedWhenSettled ==
    /\ []PendingOnlyInFlight
    /\ [][NoWaiterAfterResolve]_vars
    /\ FetchSettled(StrType11) ~> (StrType11 \notin DOMAIN pendingDeviceTypeRequests)
    /\ (\E t \in DOMAIN tasks : QueuedOn(t, StrType11) /\ FetchSettled(StrType11))
          ~> (\A t \in DOMAIN tasks : ~QueuedOn(t, StrType11))

\* A fetch that failed has settled with a caller queued on it; and later the
\* entry is gone and that caller has been given undefined.
C27_Witness ==
    /\ pendingDeviceTypeRequests = EmptyMap
    /\ \E t \in DOMAIN tasks :
          /\ tasks[t].how = "queue" /\ tasks[t].pc = "done"
          /\ tasks[t].settle = "fulfilled" /\ tasks[t].result = Undefined

(***************************************************************************)
(* Properties of the sample counters (checked under Spec)                  *)
(***************************************************************************)
\* The samples decoded for device k in this step: what its x1 history was
\* given, whatever the cap then trimmed.
DecodedInStep(k) ==
    Len(AppendedOf(devicesState', k)) - Len(AppendedOf(devicesState, k))

TotalSamplesOf(st, k) == IF k \in DOMAIN st THEN st[k].totalSamples ELSE 0
LoggedOf(st, k) == IF k \in DOMAIN st THEN st[k].logged ELSE <<>>

\* C28: totalSamples of a device counts every sample decoded for it since its
\* stats entry was created: each batch that decodes k >= 1 samples adds k to
\* totalSamples and appends one event (now, k), whatever the length of the
\* history before the batch, up to the cap.
C28_TotalSamplesCountsDecoded ==
    [][\A k \in DOMAIN deviceStats' :
          (/\ k \in DOMAIN devicesState /\ k \in DOMAIN devicesState'
           /\ IsPrefix(AppendedOf(devicesState, k), AppendedOf(devicesState', k))
           /\ DecodedInStep(k) >= 1)
          => /\ TotalSamplesOf(deviceStats', k)
                   = TotalSamplesOf(deviceStats, k) + DecodedInStep(k)
             /\ LoggedOf(deviceStats', k)
                   = Append(LoggedOf(deviceStats, k),
                            [timeMs |-> now, samples |-> DecodedInStep(k)])]_vars

\* With a cap of 1, two frames gave 1_6a the samples 5 and 5, and its
\* totalSamples is 1: the second batch was not counted.
C28_Witness ==
    /\ maxDatapointsToStore = 1
    /\ AppendedOf(devicesState, Key6a) = <<5, 5>>
    /\ Key6a \in DOMAIN deviceStats
    /\ deviceStats[Key6a].totalSamples = 1

(***************************************************************************)
(* RaftStreamHandler: streamData, streamAudio, streamCancel, onSoktoMsg    *)
(*                                                                         *)
(* A call (of streamData, or of streamAudio with the _sendStreamBuffer it  *)
(* starts) stands at pc:                                                   *)
(*   "start"    awaiting the answer to ufStart                             *)
(*   "backoff"  streamData, in the 50 ms timer after a sokto               *)
(*   "block"    awaiting sendStreamBlock                                   *)
(*   "yield"    in the timer that ends an iteration of the block loop      *)
(*   "paused"   _sendStreamBuffer, in the 5 ms timer of a paused stream    *)
(*   "end"      awaiting the answer to ufEnd                               *)
(*   "done"     returned; result tells what                                *)
(* pos and blockSize are the locals of streamData; blocks lists what the   *)
(* call handed to sendStreamBlock (position, bytes, stream id, the block   *)
(* size in force, outcome) and ended tells that it sent ufEnd.  The pause  *)
(* between audio blocks (lines 389-393) is a second timer before the one   *)
(* that ends the iteration; nothing is read or written between the two,    *)
(* and they are one "yield".  The finish-point timer only raises a         *)
(* connection event and is left out.                                       *)
(***************************************************************************)
NewStreamCall(kind, streamContents) ==
    [kind |-> kind, streamContents |-> streamContents, pc |-> "start",
     pos |-> 0, blockSize |-> 0, blocks |-> <<>>,
     startOk |-> FALSE, ended |-> FALSE, endOk |-> FALSE, result |-> ""]

StreamReturn(st, c, result) ==
    [st EXCEPT !.calls[c].pc = "done", !.calls[c].result = result]

\* Lines 97 and 171: another stream is starting, or one started less than
\* 500 ms ago.
StreamTooSoon(st, nowMs) ==
    st.streamIsStarting \/ st.lastStreamStartTime > nowMs - StreamStartGapMs

\* streamData up to its first await (lines 95-113).
streamData(st, nowMs, streamContents) ==
    IF StreamTooSoon(st, nowMs)
    THEN [st EXCEPT !.calls =
             Append(@, [NewStreamCall("data", streamContents) EXCEPT
                           !.pc = "done", !.result = "false"])]
    ELSE [st EXCEPT !.streamIsStarting = TRUE,
                    !.lastStreamStartTime = nowMs,
                    !.soktoReceived = FALSE,
                    !.soktoPos = 0,
                    !.streamPos = 0,
                    !.streamBuffer = streamContents,
                    !.calls = Append(@, NewStreamCall("data", streamContents))]

\* streamAudio up to the send of ufStart (lines 166-188).
streamAudio(st, nowMs, streamContents) ==
    IF StreamTooSoon(st, nowMs)
    THEN [st EXCEPT !.calls =
             Append(@, [NewStreamCall("audio", streamContents) EXCEPT
                           !.pc = "done", !.result = "refused"])]
    ELSE [st EXCEPT !.isPaused = TRUE,
                    !.streamIsStarting = TRUE,
                    !.lastStreamStartTime = nowMs,
                    !.soktoReceived = FALSE,
                    !.soktoPos = 0,
                    !.streamPos = 0,
                    !.streamBuffer = streamContents,
                    !.calls = Append(@, NewStreamCall("audio", streamContents))]

\* _sendStreamStartMsg after the answer to ufStart (lines 251-271): an ok
\* answer sets the stream id and the block size (the default when the answer
\* names none).
StreamStartOk(resp) == resp.rslt = "ok"

sendStreamStartMsgDone(st, resp) ==
    IF StreamStartOk(resp)
    THEN [st EXCEPT !.streamID = JsonNumber(resp.streamID),
                    !.maxBlockSize = IF resp.maxBlockSize = 0
                                     THEN DEFAULT_MAX_BLOCK_SIZE
                                     ELSE resp.maxBlockSize]
    ELSE st

\* _sendStreamEndMsg up to its await (lines 283-301).
sendStreamEndMsg(st, c) ==
    IF st.streamID = Null THEN StreamReturn(st, c, "false")
    ELSE [st EXCEPT !.calls[c].ended = TRUE, !.calls[c].pc = "end"]

\* What sendStreamBlock is handed at position pos: slice(pos, pos + blockSize)
\* of the buffer as it is now.
StreamBlockSize(st, pos) == Min(Len(st.streamBuffer) - pos, st.maxBlockSize)
StreamBlock(st, pos) ==
    IF StreamBlockSize(st, pos) > 0
    THEN SubSeq(st.streamBuffer, pos + 1, pos + StreamBlockSize(st, pos))
    ELSE <<>>

\* Lines 134-152 and 373-394: the block is sent and awaited, or there is none
\* and the iteration ends in its timer.
StreamSendBlock(st, c, pos) ==
    IF Len(StreamBlock(st, pos)) > 0
    THEN [st EXCEPT !.calls[c].blockSize = StreamBlockSize(st, pos),
                    !.calls[c].blocks =
                        Append(@, [pos |-> pos, block |-> StreamBlock(st, pos),
                                   streamID |-> st.streamID,
                                   maxBlockSize |-> st.maxBlockSize,
                                   sentOk |-> "pending"]),
                    !.calls[c].pc = "block"]
    ELSE [st EXCEPT !.calls[c].blockSize = StreamBlockSize(st, pos),
                    !.calls[c].pc = "yield"]

\* The while loop of streamData from its test (lines 124-160).
StreamDataLoop(st, c) ==
    IF st.calls[c].pos < Len(st.streamBuffer)
    THEN IF st.soktoReceived
         THEN [st EXCEPT !.soktoReceived = FALSE, !.calls[c].pc = "backoff"]
         ELSE StreamSendBlock(st, c, st.calls[c].pos)
    ELSE sendStreamEndMsg(st, c)

\* The while loop of _sendStreamBuffer from its test (lines 353-403).
sendStreamBuffer(st, c) ==
    IF st.soktoPos < Len(st.streamBuffer) \/ st.isPaused
    THEN IF st.isPaused
         THEN [st EXCEPT !.calls[c].pc = "paused"]
         ELSE LET st1 == IF st.soktoReceived
                         THEN [st EXCEPT !.streamPos = IF st.legacySoktoMode
                                                       THEN st.soktoPos ELSE @,
                                         !.soktoReceived = FALSE]
                         ELSE st
              IN  StreamSendBlock(st1, c, st1.streamPos)
    ELSE sendStreamEndMsg([st EXCEPT !.isStreaming = FALSE], c)

\* The loop of call c from its test.
StreamLoop(st, c) ==
    IF st.calls[c].kind = "data" THEN StreamDataLoop(st, c) ELSE sendStreamBuffer(st, c)

\* The answer to ufStart: streamData goes on from line 114, streamAudio runs
\* its then-callback (lines 189-202), which starts _sendStreamBuffer unless a
\* stream is under way.
StreamStarted(st, c, resp) ==
    LET st1 == [sendStreamStartMsgDone(st, resp) EXCEPT
                   !.calls[c].startOk = StreamStartOk(resp)]
    IN  IF st.calls[c].kind = "data"
        THEN LET st2 == [st1 EXCEPT !.streamIsStarting = FALSE]
             IN  IF ~StreamStartOk(resp) THEN StreamReturn(st2, c, "false")
                 ELSE IF st2.streamID = Null THEN StreamReturn(st2, c, "false")
                 ELSE StreamDataLoop([st2 EXCEPT !.calls[c].pos = 0], c)
        ELSE LET st2 == [st1 EXCEPT !.isPaused = FALSE, !.streamIsStarting = FALSE]
             IN  IF ~StreamStartOk(resp) THEN StreamReturn(st2, c, "notstarted")
                 ELSE IF st2.isStreaming THEN StreamReturn(st2, c, "joined")
                 ELSE IF st2.streamID = Null
                 THEN StreamReturn([st2 EXCEPT !.isStreaming = TRUE], c, "false")
                 ELSE sendStreamBuffer([st2 EXCEPT !.isStreaming = TRUE], c)

\* sendStreamBlock has answered (lines 138-145 and 378-387).
StreamBlockDone(st, c, sentOk) ==
    LET st1 == [st EXCEPT !.calls[c].blocks[Len(st.calls[c].blocks)].sentOk =
                              IF sentOk THEN "ok" ELSE "failed"]
    IN  IF ~sentOk THEN StreamReturn(st1, c, "false")
        ELSE IF st.calls[c].kind = "data"
        THEN [st1 EXCEPT !.calls[c].pos = @ + st.calls[c].blockSize,
                         !.streamPos = st.calls[c].pos + st.calls[c].blockSize,
                         !.calls[c].pc = "yield"]
        ELSE [st1 EXCEPT !.streamPos = @ + st.calls[c].blockSize,
                         !.calls[c].pc = "yield"]

\* A timer of call c fires: after the back-off the block is sent without a
\* new test of the loop condition; the other timers lead to the loop's test.
StreamTimerFired(st, c) ==
    IF st.calls[c].pc = "backoff" THEN StreamSendBlock(st, c, st.calls[c].pos)
    ELSE StreamLoop(st, c)

\* The answer to ufEnd (lines 293-301, 159-160, 400-402): streamData returns
\* whether it was ok, _sendStreamBuffer returns true.
StreamEnded(st, c, rslt) ==
    IF st.calls[c].kind = "data"
    THEN StreamReturn([st EXCEPT !.calls[c].endOk = (rslt = "ok")], c,
                      IF rslt = "ok" THEN "true" ELSE "false")
    ELSE StreamReturn([st EXCEPT !.calls[c].endOk = (rslt = "ok")], c, "true")

\* A step of the stream handler: nothing of the device manager changes.
StreamStep(st) ==
    /\ stream' = st
    /\ cbLog' = <<>>
    /\ Unchanged_DeviceManager
    /\ Unchanged_Config
    /\ UNCHANGED <<now, ticks, framesDelivered>>

StreamData(streamContents) ==
    /\ Len(stream.calls) < MaxStreams
    /\ StreamStep(streamData(stream, now, streamContents))

StreamAudio(streamContents) ==
    /\ Len(stream.calls) < MaxStreams
    /\ StreamStep(streamAudio(stream, now, streamContents))

StreamStartResponse(c, resp) ==
    /\ c \in DOMAIN stream.calls
    /\ stream.calls[c].pc = "start"
    /\ StreamStep(StreamStarted(stream, c, resp))

StreamBlockSent(c, sentOk) ==
    /\ c \in DOMAIN stream.calls
    /\ stream.calls[c].pc = "block"
    /\ StreamStep(StreamBlockDone(stream, c, sentOk))

StreamTimer(c) ==
    /\ c \in DOMAIN stream.calls
    /\ stream.calls[c].pc \in {"backoff", "yield", "paused"}
    /\ StreamStep(StreamTimerFired(stream, c))

StreamEndResponse(c, rslt) ==
    /\ c \in DOMAIN stream.calls
    /\ stream.calls[c].pc = "end"
    /\ StreamStep(StreamEnded(stream, c, rslt))

\* streamCancel (lines 205-208).
StreamCancel == StreamStep([stream EXCEPT !.streamBuffer = <<>>])

\* onSoktoMsg (lines 406-411).
OnSoktoMsg(soktoPos) ==
    /\ stream.soktoMsgs < MaxSoktos
    /\ StreamStep([stream EXCEPT !.soktoPos = soktoPos, !.soktoReceived = TRUE,
                                 !.soktoMsgs = @ + 1])

\* setLegacySoktoMode (lines 74-77).
SetLegacySoktoMode(legacyMode) ==
    StreamStep([stream EXCEPT !.legacySoktoMode = legacyMode])

(***************************************************************************)
(* SpecStream: streamData calls, the firmware's answers, cancels, soktos   *)
(* and the clock.                                                          *)
(***************************************************************************)
StreamContents == {<<1, 2, 3>>, <<7>>}
\* ufStart answers: ok with a block size of 2, ok without a block size, a
\* failure, and a send that raises.
StartOkSmall == [rslt |-> "ok", streamID |-> 5, maxBlockSize |-> 2]
StartOkDefault == [rslt |-> "ok", streamID |-> 6, maxBlockSize |-> 0]
StartFail == [rslt |-> "fail", streamID |-> 0, maxBlockSize |-> 0]
StartRaise == [rslt |-> "raise", streamID |-> 0, maxBlockSize |-> 0]
StartResponses == {StartOkSmall, StartOkDefault, StartFail, StartRaise}
EndResponses == {"ok", "fail", "raise"}
SoktoPositions == {0, 3}

StreamStreamData == \E streamContents \in StreamContents : StreamData(streamContents)
StreamStreamStartResponse ==
    \E c \in DOMAIN stream.calls : \E resp \in StartResponses : StreamStartResponse(c, resp)
StreamStreamBlockSent ==
    \E c \in DOMAIN stream.calls : \E sentOk \in BOOLEAN : StreamBlockSent(c, sentOk)
StreamStreamTimer == \E c \in DOMAIN stream.calls : StreamTimer(c)
StreamStreamEndResponse ==
    \E c \in DOMAIN stream.calls : \E rslt \in EndResponses : StreamEndResponse(c, rslt)
StreamOnSoktoMsg == \E soktoPos \in SoktoPositions : OnSoktoMsg(soktoPos)
StreamTick == Tick(StreamStartGapMs)

NextStream ==
    \/ StreamStreamData
    \/ StreamStreamStartResponse
    \/ StreamStreamBlockSent
    \/ StreamStreamTimer
    \/ StreamStreamEndResponse
    \/ StreamCancel
    \/ StreamOnSoktoMsg
    \/ StreamTick

SpecStream == Init /\ [][NextStream]_vars

(***************************************************************************)
(* Properties of streamData (checked under SpecStream)                     *)
(***************************************************************************)
RECURSIVE BlocksData(_)
BlocksData(blocks) ==
    IF blocks = <<>> THEN <<>> ELSE Head(blocks).block \o BlocksData(Tail(blocks))

\* The blocks are contiguous from position 0, each sent with success and no
\* longer than the block size.
BlocksInOrder(blocks) ==
    \A i \in DOMAIN blocks :
        /\ blocks[i].sentOk = "ok"
        /\ Len(blocks[i].block) <= blocks[i].maxBlockSize
        /\ blocks[i].pos = Len(BlocksData(SubSeq(blocks, 1, i - 1)))

\* C29: streamData returns true only when ufStart succeeded, every byte of
\* the streamContents of that call was sent in blocks that each succeeded,
\* contiguous, in increasing position and each at most maxBlockSize long, and
\* ufEnd was acknowledged ok; in every other case it returns false.
C29_StreamDataTrueOnlyWhenAllSent ==
    \A c \in DOMAIN stream.calls :
        (stream.calls[c].kind = "data" /\ stream.calls[c].pc = "done") =>
            /\ stream.calls[c].result \in {"true", "false"}
            /\ stream.calls[c].result = "true" =>
                  /\ stream.calls[c].startOk
                  /\ stream.calls[c].endOk
                  /\ BlocksInOrder(stream.calls[c].blocks)
                  /\ BlocksData(stream.calls[c].blocks) = stream.calls[c].streamContents

\* streamData(<<1, 2, 3>>) sent its first block <<1, 2>>, streamCancel emptied
\* the buffer, and the call returned true on the ok answer to ufEnd.
C29_Witness ==
    /\ Len(stream.calls) = 1
    /\ stream.calls[1].kind = "data"
    /\ stream.calls[1].streamContents = <<1, 2, 3>>
    /\ stream.calls[1].result = "true"
    /\ BlocksData(stream.calls[1].blocks) = <<1, 2>>
    /\ stream.streamBuffer = <<>>

(***************************************************************************)
(* SpecAudio: one streamAudio transfer, with soktos that may or may not    *)
(* come; SpecAudioFair adds that timers fire and sends are answered.       *)
(***************************************************************************)
AudioStreamAudio == stream.calls = <<>> /\ StreamAudio(<<1, 2, 3>>)
AudioStartResponse == \E resp \in {StartOkSmall, StartFail} : StreamStartResponse(1, resp)
AudioBlockSent == \E sentOk \in BOOLEAN : StreamBlockSent(1, sentOk)
AudioTimer == StreamTimer(1)
AudioEndResponse == \E rslt \in EndResponses : StreamEndResponse(1, rslt)
AudioSetLegacySoktoMode == \E legacyMode \in BOOLEAN : SetLegacySoktoMode(legacyMode)

NextAudio ==
    \/ AudioStreamAudio
    \/ AudioStartResponse
    \/ AudioBlockSent
    \/ AudioTimer
    \/ AudioEndResponse
    \/ StreamOnSoktoMsg
    \/ AudioSetLegacySoktoMode
    \/ StreamTick

SpecAudio == Init /\ [][NextAudio]_vars

\* The timers of the loop fire and the transport answers the sends; nothing
\* is assumed of the firmware's soktos.
SpecAudioFair ==
    /\ SpecAudio
    /\ WF_vars(AudioTimer)
    /\ WF_vars(AudioBlockSent)
    /\ WF_vars(AudioEndResponse)

(***************************************************************************)
(* Properties of streamAudio (checked under SpecAudioFair)                 *)
(***************************************************************************)
\* The transfer runs outside legacy mode and every byte of the buffer was
\* sent in blocks that succeeded.
AudioAllSent ==
    /\ Len(stream.calls) = 1
    /\ stream.calls[1].kind = "audio"
    /\ stream.isStreaming
    /\ ~stream.legacySoktoMode
    /\ stream.calls[1].pc # "done"
    /\ BlocksInOrder(stream.calls[1].blocks)
    /\ BlocksData(stream.calls[1].blocks) = stream.calls[1].streamContents

\* The transfer has finished: ufEnd was sent and _isStreaming is cleared.
AudioFinished ==
    /\ Len(stream.calls) = 1
    /\ stream.calls[1].ended
    /\ ~stream.isStreaming

\* C30: outside legacy mode the sokto message is informational only: a
\* streamAudio transfer whose blocks were all sent with success finishes
\* (ufEnd is sent and _isStreaming is cleared), whether or not a sokto
\* message is ever received.
C30_AudioFinishesWithoutSokto == AudioAllSent ~> (AudioFinished \/ stream.legacySoktoMode)

\* All of <<1, 2, 3>> was sent, no sokto has come, and the loop is in the
\* timer that ends an iteration which had nothing to send.
C30_Witness ==
    /\ AudioAllSent
    /\ stream.soktoPos = 0 /\ ~stream.soktoReceived
    /\ stream.streamPos = 3
    /\ stream.calls[1].pc = "yield"
    /\ stream.calls[1].blockSize = 0
    /\ ~stream.calls[1].ended

(***************************************************************************)
(* SpecAudioAgain: streamAudio transfers one after the other.              *)
(***************************************************************************)
AgainStreamAudio == \E streamContents \in StreamContents : StreamAudio(streamContents)
AgainStartResponse ==
    \E c \in DOMAIN stream.calls : \E resp \in {StartOkSmall, StartFail} :
        StreamStartResponse(c, resp)

NextAudioAgain ==
    \/ AgainStreamAudio
    \/ AgainStartResponse
    \/ StreamStreamBlockSent
    \/ StreamStreamTimer
    \/ StreamStreamEndResponse
    \/ StreamOnSoktoMsg
    \/ StreamTick

SpecAudioAgain == Init /\ [][NextAudioAgain]_vars

\* A _sendStreamBuffer is running: a streamAudio call stands in its loop.
SenderRunning ==
    \E c \in DOMAIN stream.calls :
        /\ stream.calls[c].kind = "audio"
        /\ stream.calls[c].pc \in {"block", "yield", "paused"}

\* A streamAudio call whose ufStart succeeded has its blocks sent by a
\* _sendStreamBuffer: its own, or the one that runs.
StartedAudioIsSent ==
    \A c \in DOMAIN stream.calls :
        (/\ stream.calls[c].kind = "audio"
         /\ stream.calls[c].startOk
         /\ stream.calls[c].pc = "done"
         /\ stream.calls[c].result = "joined") => SenderRunning

\* C31: after a streamAudio transfer has ended, for any reason, a later
\* streamAudio call whose ufStart succeeds has its blocks sent; the handler
\* is never marked as streaming with no sender running.
C31_StreamingHasSender ==
    /\ stream.isStreaming => SenderRunning
    /\ StartedAudioIsSent

\* The first transfer ended on a failed block; 500 ms later a second
\* streamAudio had its ufStart answered ok and sent nothing, for the handler
\* was still marked as streaming.
C31_Witness ==
    /\ Len(stream.calls) = 2
    /\ stream.calls[1].kind = "audio" /\ stream.calls[1].result = "false"
    /\ stream.calls[2].kind = "audio" /\ stream.calls[2].startOk
    /\ stream.calls[2].result = "joined" /\ stream.calls[2].blocks = <<>>
    /\ stream.isStreaming
    /\ ~SenderRunning

(***************************************************************************)
(* The device-state map and the last-update-time table.                    *)
(***************************************************************************)
\* C32: every key of the device-state map has an entry in the last-update-time
\* table, whatever the interleaving of a frame suspended on a schema fetch
\* with a frame that removes the same device.
C32_StateKeysHaveUpdateTime == DOMAIN devicesState \subseteq DOMAIN deviceLastUpdateTime

\* A device stands in the device-state map with no last-update time, no
\* handler being suspended any more.
C32_Witness ==
    /\ Key6a \in DOMAIN devicesState
    /\ Key6a \notin DOMAIN deviceLastUpdateTime
    /\ \A t \in DOMAIN tasks : tasks[t].pc = "done"
    /\ Idle

(***************************************************************************)
(* Order of the callbacks of one device (checked under SpecNotify, where   *)
(* every callback is registered before the first frame).                   *)
(***************************************************************************)
\* The creation of the DeviceState now under key k has been announced:
\* processStateCallback has passed over it and cleared deviceIsNew.
Announced(k) == k \in DOMAIN devicesState /\ ~devicesState[k].deviceIsNew

ConcernsDevice == {"decodedData", "newAttribute", "newData", "deviceRemoved"}

\* C33: for every device key the new-device callback is invoked before any
\* decoded-data, new-attribute, new-data or device-removed callback that
\* concerns the key.
C33_NewDeviceCallbackFirst ==
    [][\A i \in DOMAIN cbLog' :
          cbLog'[i].ev \in ConcernsDevice =>
              \/ Announced(cbLog'[i].deviceKey)
              \/ \E j \in 1..(i - 1) :
                    /\ cbLog'[j].ev = "newDevice"
                    /\ cbLog'[j].deviceKey = cbLog'[i].deviceKey]_vars

\* One run of a handler has invoked the decoded-data callback for 1_6a and
\* only afterwards the new-device callback for it.
C33_Witness ==
    \E i, j \in DOMAIN cbLog :
        /\ i < j
        /\ cbLog[i].ev = "decodedData" /\ cbLog[i].deviceKey = Key6a
        /\ cbLog[j].ev = "newDevice" /\ cbLog[j].deviceKey = Key6a
        /\ \A h \in 1..(i - 1) : cbLog[h].ev # "newDevice"

(***************************************************************************)
(* SpecSweep: a device-removed callback is registered before the first     *)
(* frame; devices are then deleted by pending-deletion records and by the  *)
(* liveness sweep.                                                         *)
(***************************************************************************)
SweepBinaryFrames == {FrameA, FrameB12, FrameDeleteThenA}

SweepAddDeviceRemovedCallback ==
    framesDelivered = 0 /\ AddDeviceRemovedCallback("onDeviceRemoved")
SweepDeliverBinary ==
    deviceRemovedCallbacks # <<>> /\ \E f \in SweepBinaryFrames : DeliverBinary(f)

NextSweep ==
    \/ StoreSetup
    \/ SweepAddDeviceRemovedCallback
    \/ LifeTick
    \/ SweepDeliverBinary
    \/ LifeRpcResponse
    \/ RunRequestSettled
    \/ RunWaiterResolved
    \/ RunHandlerResumed

SpecSweep == Init /\ [][NextSweep]_vars

\* C34: every time a device is deleted from the device-state map, by a
\* pending-deletion record or by the liveness sweep, every device-removed
\* callback is invoked exactly once for its key.
C34_RemovedCallbackOnEveryDeletion ==
    [][\A k \in DOMAIN devicesState :
          k \notin DOMAIN devicesState' =>
              /\ Len(RemovedLog(k)) = Len(deviceRemovedCallbacks)
              /\ \A c \in DOMAIN deviceRemovedCallbacks :
                    RemovedLog(k)[c].cb = deviceRemovedCallbacks[c]]_vars

\* Device 1_6a was created by a first frame and deleted by the sweep of a
\* second frame, 60001 ms later; no pending-deletion record was ever handled
\* and so the registered device-removed callback has never been invoked.
C34_Witness ==
    /\ deviceRemovedCallbacks # <<>>
    /\ Len(tasks) = 2
    /\ tasks[1].frame = FrameA /\ tasks[1].pc = "done"
    /\ tasks[2].frame = FrameB12 /\ tasks[2].pc = "done"
    /\ Key6a \notin DOMAIN devicesState
    /\ Key6b \in DOMAIN devicesState
    /\ Key6a \in DOMAIN deviceLastUpdateTime
    /\ now - deviceLastUpdateTime[Key6a] > RemoveDevicesTimeMs
    /\ \A i \in DOMAIN cbLog : cbLog[i].ev # "deviceRemoved"

(***************************************************************************)
(* Records that carry the pending-deletion signal (checked under SpecJson, *)
(* whose frames are JSON entries for 1_6a, one of them with _o = 2).       *)
(***************************************************************************)
\* The JSON entry carries _o = 2.
JsonSignalsDeletion(attrGroups) ==
    JsonHas(attrGroups, StrO) /\ OnlineStateVal(attrGroups) = 2

\* Task t stands at `await getDeviceTypeInfo` for a record that carries the
\* pending-deletion signal.
AwaitsTypeInfoForDeletion(t) ==
    /\ tasks[t].pc # "done"
    /\ \/ /\ tasks[t].kind = "json"
          /\ JsonSignalsDeletion(tasks[t].frame.attrGroups)
       \/ /\ tasks[t].kind = "bin"
          /\ tasks[t].msgPos < Len(tasks[t].frame)
          /\ ~RecordOverruns(tasks[t].frame, tasks[t].msgPos)
          /\ RecordHeader(tasks[t].frame, tasks[t].msgPos).isPendingDeletion

\* The closure of a JSON entry with _o = 2 ends in this step having invoked
\* device-removed although its key was not in the device-state map.
JsonDeletionAnnouncesAbsent(t) ==
    /\ tasks[t].kind = "json" /\ tasks[t].pc # "done" /\ tasks'[t].pc = "done"
    /\ JsonSignalsDeletion(tasks[t].frame.attrGroups)
    /\ LET k == getDeviceKey(tasks[t].frame.busName, tasks[t].frame.devAddr)
       IN  k \notin DOMAIN devicesState /\ RemovedLog(k) # <<>>

\* C35: a record that carries the pending-deletion signal (bit6 of the
\* binary status byte, or _o = 2 in JSON) never sends or awaits a typeinfo
\* request, never creates a DeviceState, and invokes device-removed only if
\* its key was in the device-state map.
C35_DeletionRecordOnlyRemoves ==
    /\ [](\A t \in DOMAIN tasks : ~AwaitsTypeInfoForDeletion(t))
    /\ [][\A t \in DOMAIN tasks : ~JsonDeletionAnnouncesAbsent(t)]_vars

\* The first frame, {"1":{"6a":{"_i":11,"_o":2,"x1":"05"}}}, fetched the
\* schema of type 11, and the device-removed callback has been invoked for
\* 1_6a, which no frame had created before.
C35_Witness ==
    /\ Len(tasks) = 1
    /\ tasks[1].kind = "json" /\ tasks[1].pc = "done"
    /\ JsonSignalsDeletion(tasks[1].frame.attrGroups)
    /\ framesDelivered = 1
    /\ fetchLog # EmptyMap
    /\ \E i \in DOMAIN cbLog : cbLog[i].ev = "deviceRemoved" /\ cbLog[i].deviceKey = Key6a
    /\ Key6a \notin DOMAIN devicesState

(***************************************************************************)
(* SpecShort: binary frames with a record whose recordLen is below the     *)
(* header length.                                                          *)
(***************************************************************************)
\* 0080 | 0000 | 0008 81 0000006a 000b 05 : a record of recordLen 0, then a
\* record of device 1_6a.
FrameEmptyThenA ==
    MsgTypePrefix \o <<0, 0>> \o MkRecord(StatusOnlineBus1, Addr6a, 11, <<5>>)

ShortBinaryFrames == {FrameA, FrameEmptyThenA}
ShortDeliverBinary == \E f \in ShortBinaryFrames : DeliverBinary(f)

NextShort ==
    \/ StoreSetup
    \/ ShortDeliverBinary
    \/ LifeRpcResponse
    \/ RunRequestSettled
    \/ RunWaiterResolved
    \/ RunHandlerResumed

SpecShort == Init /\ [][NextShort]_vars

\* The key the handler reads for the record of recordLen 0: status 00,
\* address 08 81 00 00, which are bytes of the record that follows.
KeyOfEmptyRecord == RecordHeader(FrameEmptyThenA, Len(MsgTypePrefix)).deviceKey

\* C36: every binary record the handler acts on (last-update time, device
\* created, updated or removed) has recordLen >= 7, so that its header lies
\* inside its own body and the next record starts after it; a record with
\* recordLen < 7 changes no device state.
C36_RecordsHoldTheirHeader ==
    [][\A t \in DOMAIN tasks' :
          tasks'[t].kind = "bin" =>
              \A i \in NewVisits(t) :
                  RecordLenAt(tasks'[t].frame, tasks'[t].visited[i]) >= RecordHeaderLen]_vars

\* A DeviceState stands under the key read for the record of recordLen 0,
\* and the same frame's second record, whose first bytes gave that key, has
\* created 1_6a.
C36_Witness ==
    /\ KeyOfEmptyRecord \in DOMAIN devicesState
    /\ KeyOfEmptyRecord # Key6a
    /\ Key6a \in DOMAIN devicesState
    /\ Len(tasks) = 1 /\ tasks[1].frame = FrameEmptyThenA /\ tasks[1].pc = "done"
    /\ tasks[1].visited = <<2, 4>>

(***************************************************************************)
(* SpecKeys: devices reported in JSON under several bus names are sent an  *)
(* action by their device key.                                             *)
(***************************************************************************)
StrBusAB == <<"a", "_", "b">>
\* {"<busName>":{"6a":{"_i":11,"x1":"05"}}}
JsonOnBus(busName) ==
    JsonObject(<<Member(busName,
        JsonObject(<<Member(Str6a,
            JsonObject(<<Member(StrI, JsonNumber(11)),
                         Member(StrX1, JsonString(StrHex05))>>))>>))>>)

KeysBusNames == {StrBus1, StrBusAB}
KeysDeliverJson == \E busName \in KeysBusNames : DeliverJson(JsonOnBus(busName))
KeysSendAction == \E deviceKey \in DOMAIN devicesState : SendAction(deviceKey, ActionPlain, <<3>>)

NextKeys ==
    \/ StoreSetup
    \/ KeysDeliverJson
    \/ KeysSendAction
    \/ SendWriteRpcResponse
    \/ LifeRpcResponse
    \/ RunRequestSettled
    \/ RunWaiterResolved
    \/ RunHandlerResumed

SpecKeys == Init /\ [][NextKeys]_vars

\* The sendAction calls made for a device that is in the device-state map.
ActionCallsToDevices ==
    {t \in DOMAIN tasks :
        /\ tasks[t].kind = "send" /\ tasks[t].frame.call = "sendAction"
        /\ tasks[t].frame.args.deviceKey \in DOMAIN devicesState}

\* C37: parseDeviceKey(getDeviceKey(bus, addr)) gives back (bus, addr) for
\* every bus name and address the handlers put in a key, so the write command
\* of sendAction addresses the bus and the device the key was made of; and
\* distinct (bus, addr) pairs have distinct keys.
C37_KeyRoundTrip ==
    /\ \A k \in DOMAIN devicesState :
          /\ k = getDeviceKey(devicesState[k].busName, devicesState[k].deviceAddress)
          /\ parseDeviceKey(k).bus = devicesState[k].busName
          /\ parseDeviceKey(k).addr = devicesState[k].deviceAddress
    /\ \A t \in ActionCallsToDevices :
          LET k == tasks[t].frame.args.deviceKey
          IN  /\ tasks[t].frame.cmd.bus = devicesState[k].busName
              /\ tasks[t].frame.cmd.addr = devicesState[k].deviceAddress
    /\ \A k1, k2 \in DOMAIN devicesState :
          k1 # k2 => <<devicesState[k1].busName, devicesState[k1].deviceAddress>>
                     # <<devicesState[k2].busName, devicesState[k2].deviceAddress>>

\* The device reported as address 6a on bus a_b was sent an action, and the
\* command went to address b_6a on bus a.
C37_Witness ==
    \E t \in ActionCallsToDevices :
        LET k == tasks[t].frame.args.deviceKey
        IN  /\ devicesState[k].busName = StrBusAB
            /\ devicesState[k].deviceAddress = Str6a
            /\ tasks[t].frame.cmd.bus = <<"a">>
            /\ tasks[t].frame.cmd.addr = <<"b", "_", "6", "a">>
            /\ tasks[t].pc = "done" /\ tasks[t].result = JsonBoolean(TRUE)

(***************************************************************************)
(* sendCompoundAction: the rows of data are written with sendAction, as    *)
(* one command (action.concat) or one command per row.                     *)
(***************************************************************************)
RECURSIVE Flatten(_)
Flatten(data) == IF data = <<>> THEN <<>> ELSE Head(data) \o Flatten(Tail(data))

\* The call of sendCompoundAction: dataIdx and allOk are its locals, child
\* the sendAction call it awaits, issued the calls it has made.
NewCompoundCall(deviceKey, action, data) ==
    [kind |-> "compound",
     frame |-> [call |-> "sendCompoundAction", deviceKey |-> deviceKey,
                action |-> action, data |-> data],
     pc |-> "run", dataIdx |-> 0, allOk |-> TRUE, child |-> 0, issued |-> <<>>,
     exit |-> "", result |-> Undefined]

\* await this.sendAction(deviceKey, action, dataToWrite): the call is made;
\* when it returns without an RPC the continuation is queued at once.
CompoundSend(s, t, dataToWrite) ==
    LET f == s.tasks[t].frame
        child == Len(s.tasks) + 1
        s1 == SendStart(s, "sendAction", ActionCmd(f.deviceKey, f.action, dataToWrite),
                        [deviceKey |-> f.deviceKey, action |-> f.action,
                         data |-> dataToWrite, caller |-> t])
        s2 == [s1 EXCEPT !.tasks[t].pc = "await",
                         !.tasks[t].child = child,
                         !.tasks[t].issued = Append(@, child)]
    IN  IF s2.tasks[child].pc = "done"
        THEN [s2 EXCEPT !.microtasks = Append(@, Job(t, "sendCont"))]
        ELSE s2

\* The value the non-concat branch returns after its loop (line 853).
CompoundLoopResult(allOk) == FALSE

\* Lines 842-853: the loop over the rows, from dataIdx up to the next await
\* or the return.  Once allOk is false, && no longer evaluates sendAction.
RECURSIVE CompoundLoop(_, _)
CompoundLoop(s, t) ==
    LET f == s.tasks[t].frame
        dataIdx == s.tasks[t].dataIdx
    IN  IF ~(dataIdx < Len(f.data))
        THEN [s EXCEPT !.tasks[t].pc = "done",
                       !.tasks[t].exit = "returned",
                       !.tasks[t].result =
                           JsonBoolean(CompoundLoopResult(s.tasks[t].allOk))]
        ELSE IF ~s.tasks[t].allOk
        THEN CompoundLoop([s EXCEPT !.tasks[t].dataIdx = @ + 1], t)
        ELSE CompoundSend(s, t, <<dataIdx>> \o f.data[dataIdx + 1])

\* sendCompoundAction up to its first await or its return.
sendCompoundAction(s, deviceKey, action, data) ==
    LET t == Len(s.tasks) + 1
        s1 == [s EXCEPT !.tasks = Append(@, NewCompoundCall(deviceKey, action, data))]
    IN  IF action.concat
        THEN CompoundSend(s1, t, Flatten(data))
        ELSE CompoundLoop(s1, t)

\* sendCompoundAction continues after `await this.sendAction(...)`.
CompoundResume(s, t) ==
    LET r == s.tasks[s.tasks[t].child].result.b
    IN  IF s.tasks[t].frame.action.concat
        THEN [s EXCEPT !.tasks[t].pc = "done",
                       !.tasks[t].exit = "returned",
                       !.tasks[t].result = JsonBoolean(r)]
        ELSE CompoundLoop([s EXCEPT !.tasks[t].allOk = r,
                                    !.tasks[t].dataIdx = @ + 1], t)

\* sendCompoundAction(deviceKey, action, data)
SendCompoundAction(deviceKey, action, data) ==
    /\ Idle
    /\ SendCalls + Len(data) <= MaxSends
    /\ Commit(sendCompoundAction([State EXCEPT !.cbLog = <<>>], deviceKey, action, data))
    /\ Unchanged_Config
    /\ UNCHANGED <<now, ticks, framesDelivered>>

\* Microtask: sendCompoundAction continues after its await.
RunCompoundResumed ==
    /\ microtasks # <<>>
    /\ Head(microtasks).job = "sendCont"
    /\ Commit(CompoundResume(Popped, Head(microtasks).task))
    /\ Unchanged_Config
    /\ UNCHANGED <<now, ticks, framesDelivered>>

(***************************************************************************)
(* SpecCompound: compound actions of one and two rows are sent to 1_6a,    *)
(* with and without a message handler.                                     *)
(***************************************************************************)
\* {n: "rows", t: "BB"} and {n: "rows", t: "BB", concat: true}
ActionRows ==
    [t |-> JsonString(StrBB), sub |-> Undefined, mul |-> Undefined,
     w |-> Undefined, wz |-> Undefined, concat |-> FALSE]
ActionConcat == [ActionRows EXCEPT !.concat = TRUE]
CompoundData == {<<<<3>>>>, <<<<3>>, <<4>>>>}

CompoundSendCompoundAction ==
    \E action \in {ActionRows, ActionConcat} : \E data \in CompoundData :
        SendCompoundAction(Key6a, action, data)

NextCompound ==
    \/ SendSetup
    \/ CompoundSendCompoundAction
    \/ SendWriteRpcResponse
    \/ RunCompoundResumed

SpecCompound == Init /\ [][NextCompound]_vars

\* Every write command call t issued has returned ok.
AllIssuedOk(t) ==
    \A i \in DOMAIN tasks[t].issued :
        LET c == tasks[tasks[t].issued[i]]
        IN  c.how = "rpc" /\ c.settle = "ok"

\* C38: sendCompoundAction returns true exactly when every write command it
\* issued returned ok, with action.concat (one command, the rows flattened)
\* and without (one command per row, each prefixed with its row index).
C38_CompoundTrueIffAllOk ==
    \A t \in DOMAIN tasks :
        (tasks[t].kind = "compound" /\ tasks[t].pc = "done") =>
            /\ tasks[t].result = JsonBoolean(AllIssuedOk(t))
            /\ tasks[t].frame.action.concat =>
                  /\ Len(tasks[t].issued) = 1
                  /\ tasks[tasks[t].issued[1]].frame.args.data = Flatten(tasks[t].frame.data)
            /\ ~tasks[t].frame.action.concat =>
                  \A i \in DOMAIN tasks[t].issued :
                      tasks[tasks[t].issued[i]].frame.args.data
                          = <<i - 1>> \o tasks[t].frame.data[i]

\* Without concat, both rows were written as [0, 3] and [1, 4], both write
\* commands returned ok, and sendCompoundAction has returned false.
C38_Witness ==
    \E t \in DOMAIN tasks :
        /\ tasks[t].kind = "compound" /\ tasks[t].pc = "done"
        /\ ~tasks[t].frame.action.concat
        /\ Len(tasks[t].issued) = 2
        /\ AllIssuedOk(t)
        /\ tasks[tasks[t].issued[2]].frame.cmd.hexWr = <<"0", "1", "0", "4">>
        /\ tasks[t].result = JsonBoolean(FALSE)

(***************************************************************************)
(* SpecQuery: the read accessors are called, for known, unknown and        *)
(* removed keys, between the frames of device 1_6a.                        *)
(***************************************************************************)
\* getDevicesState(); the map it returns is logged.
GetDevicesState ==
    /\ Idle
    /\ cbLog' = <<[ev |-> "getDevicesState", deviceKey |-> <<>>, arg |-> devicesState]>>
    /\ UNCHANGED deviceStats
    /\ Unchanged_ButStats
    /\ Unchanged_Config
    /\ UNCHANGED <<now, ticks, framesDelivered>>

\* getDeviceState(deviceKey); the value it returns is logged.
GetDeviceState(deviceKey) ==
    /\ Idle
    /\ cbLog' = <<[ev |-> "getDeviceState", deviceKey |-> deviceKey,
                   arg |-> IF deviceKey \in DOMAIN devicesState
                           THEN devicesState[deviceKey] ELSE Undefined]>>
    /\ UNCHANGED deviceStats
    /\ Unchanged_ButStats
    /\ Unchanged_Config
    /\ UNCHANGED <<now, ticks, framesDelivered>>

QueryKeys == {Key6a, Key6b}
QueryBinaryFrames == {FrameA, FrameDeleteThenA}

QueryDeliverBinary == \E f \in QueryBinaryFrames : DeliverBinary(f)
QueryGetDeviceState == \E k \in QueryKeys : GetDeviceState(k)
QueryGetDeviceStats == Idle /\ \E k \in QueryKeys : GetDeviceStats(k)

NextQuery ==
    \/ StoreSetup
    \/ QueryDeliverBinary
    \/ LifeRpcResponse
    \/ RunRequestSettled
    \/ RunWaiterResolved
    \/ RunHandlerResumed
    \/ GetDevicesState
    \/ QueryGetDeviceState
    \/ QueryGetDeviceStats

SpecQuery == Init /\ [][NextQuery]_vars

\* This step is a call of one of the three read accessors.
AccessorCalled ==
    /\ Len(cbLog') = 1
    /\ cbLog'[1].ev \in {"getDevicesState", "getDeviceState", "getDeviceStats"}

\* C39: getDevicesState, getDeviceState and getDeviceStats change none of the
\* device-state map, the stats map and the last-update table, whatever the
\* key; so the stats map never holds a key that is not in the device-state
\* map.
C39_AccessorsArePure ==
    /\ [][AccessorCalled =>
            UNCHANGED <<devicesState, deviceStats, deviceLastUpdateTime>>]_vars
    /\ [](DOMAIN deviceStats \subseteq DOMAIN devicesState)

\* getDeviceStats('1_6b') was called for a device no frame has reported, and
\* the stats map now has an entry for it.
C39_Witness ==
    /\ Len(cbLog) = 1
    /\ cbLog[1].ev = "getDeviceStats" /\ cbLog[1].deviceKey = Key6b
    /\ cbLog[1].arg.totalSamples = 0
    /\ Key6b \in DOMAIN deviceStats
    /\ Key6b \notin DOMAIN devicesState
    /\ Key6b \notin DOMAIN deviceLastUpdateTime
    /\ Key6a \in DOMAIN devicesState

(***************************************************************************)
(* SpecAgree: binary frames, enveloped and legacy, of topics devbin,       *)
(* devjson, 0xFF and an unnamed index, are handed to handleClientMsgBinary;*)
(* each is also classified by inspectPublishFrame, with the topic lookup   *)
(* of the manager's systemUtils.                                           *)
(***************************************************************************)
\* 0080 | 0008 81 0000006a 000b 05 : no envelope.
FrameLegacyA == MsgTypePrefix \o MkRecord(StatusOnlineBus1, Addr6a, 11, <<5>>)
\* 0080 DD03 | ... : envelope version 3, topic 3 has no name.
FrameTopic3 ==
    MsgTypePrefix \o <<221, 3>> \o MkRecord(StatusOnlineBus1, Addr6a, 11, <<5>>)

AgreeBinaryFrames ==
    {FrameA, FrameB12, FrameLegacyA, FrameTopic3, FrameOtherTopic, FrameBadMagic}
AgreeDeliverBinary == \E f \in AgreeBinaryFrames : DeliverBinary(f)

NextAgree ==
    \/ StoreSetup
    \/ AgreeDeliverBinary
    \/ LifeRpcResponse
    \/ RunRequestSettled
    \/ RunWaiterResolved
    \/ RunHandlerResumed

SpecAgree == Init /\ [][NextAgree]_vars

\* The lookup the classifier is given: getPublishTopicName of the manager's
\* systemUtils, none before setup.
ManagerLookup ==
    IF systemUtils = Null THEN Undefined ELSE [table |-> systemUtils.topics]

\* The classifier reports an envelope of unrecognized version, or a topic
\* that resolves to a name other than devbin.
NotForDevbin(meta) ==
    /\ meta.binaryHasEnvelope = JsonBoolean(TRUE)
    /\ \/ meta.version = Undefined
       \/ meta.topicName # Undefined /\ meta.topicName # JsonString(StrDevbin)

\* C40: for every frame of at least 4 bytes that inspectPublishFrame
\* classifies as binary, handleClientMsgBinary starts parsing records at the
\* binaryPayloadOffset the classifier reports, and it changes no device state
\* when the classifier reports an envelope of unrecognized version or a
\* topic that resolves to a name other than devbin.
C40_ParserAgreesWithClassifier ==
    [][\A t \in (DOMAIN tasks') \ (DOMAIN tasks) :
          LET frame == tasks'[t].frame
              meta == inspectPublishFrame(frame, ManagerLookup)
          IN  (tasks'[t].kind = "bin" /\ Len(frame) >= 4 /\ meta.frameType = "binary") =>
                  /\ tasks'[t].visited # <<>> =>
                        meta.binaryPayloadOffset = JsonNumber(tasks'[t].visited[1])
                  /\ NotForDevbin(meta) =>
                        /\ tasks'[t].visited = <<>>
                        /\ tasks'[t].pc = "done"
                        /\ UNCHANGED <<devicesState, deviceLastUpdateTime, deviceStats,
                                       rpcInFlight, microtasks>>]_vars

\* After setup a frame of topic devjson and a frame of envelope byte 0xD0
\* were dropped whole, an enveloped devbin frame was parsed from offset 4
\* and a legacy frame from offset 2.
C40_Witness ==
    /\ systemUtils # Null
    /\ \E t \in DOMAIN tasks :
          /\ tasks[t].frame = FrameOtherTopic
          /\ tasks[t].pc = "done" /\ tasks[t].visited = <<>>
          /\ NotForDevbin(inspectPublishFrame(FrameOtherTopic, ManagerLookup))
    /\ \E t \in DOMAIN tasks :
          /\ tasks[t].frame = FrameA /\ tasks[t].visited = <<4>>
          /\ inspectPublishFrame(FrameA, ManagerLookup).binaryPayloadOffset = JsonNumber(4)
    /\ \E t \in DOMAIN tasks :
          /\ tasks[t].frame = FrameLegacyA /\ tasks[t].visited = <<2>>
          /\ inspectPublishFrame(FrameLegacyA, ManagerLookup).binaryPayloadOffset
                 = JsonNumber(2)

====
